---- MODULE Spec2Model ----
(***************************************************************************)
(* State-machine model of the session persistence / project store          *)
(* (src/hooks/useSessionManager.ts) and of the map graph operations        *)
(* (src/components/MapBuilder/hooks/useMapUI.ts, useMapInteraction).       *)
(*                                                                         *)
(* JSON objects are functions from field names to values; a field that is  *)
(* `undefined` is a name missing from the DOMAIN.  A nullable value is a   *)
(* set: {} is null, {v} is the value v.  A JSON string that can also be an *)
(* object (a legacy justification) is the record [str |-> s].              *)
(***************************************************************************)
EXTENDS Integers, Sequences, FiniteSets, TLC

VARIABLES
    storage,            \* localStorage: the five keys loadInitialSession reads
    phase,              \* "boot" (before useState's initialiser), "running", "crashed"
    session,            \* the MultiProjectSession held by useSessionManager
    clock,              \* source of the Date.now()/Math.random() ids minted so far
    lastOp,             \* history: the operation that produced the current state
    linkingNode,        \* useMapUI: node a link is being drawn from ({} = null)
    relationshipMenu,   \* useMapUI: the open relationship menu ({} = null)
    logicalWorkbench,   \* useMapUI: the open logical workbench ({} = null)
    linkContextMenu,    \* useMapUI: the link whose context menu is open ({} = null)
    formalizationResult,\* useMapAI: the last formalization result ({} = null)
    pending             \* useMapAI: the AI requests awaiting their response

vars == <<storage, phase, session, clock, lastOp, linkingNode, relationshipMenu,
          logicalWorkbench, linkContextMenu, formalizationResult, pending>>
linkVars == <<linkingNode, relationshipMenu>>
aiVars == <<formalizationResult, pending>>
uiVars == <<linkingNode, relationshipMenu, logicalWorkbench, linkContextMenu,
            formalizationResult, pending>>

\* MapBuilder freshly mounted: every piece of hook state at its initial value
HooksIdle ==
    /\ linkingNode = {}
    /\ relationshipMenu = {}
    /\ logicalWorkbench = {}
    /\ linkContextMenu = {}
    /\ formalizationResult = {}
    /\ pending = {}

-----------------------------------------------------------------------------
(* JSON object helpers                                                     *)

Has(o, f) == f \in DOMAIN o
With(o, f, v) == [k \in (DOMAIN o) \cup {f} |-> IF k = f THEN v ELSE o[k]]
Without(o, f) == [k \in (DOMAIN o) \ {f} |-> o[k]]
IsString(j) == DOMAIN j = {"str"}
NullJson == [jsonNull |-> TRUE]
IsNullJson(v) == DOMAIN v = {"jsonNull"}

\* A stored string: getItem returns null, an unparsable text, or JSON text.
Absent == [kind |-> "absent"]
Garbage == [kind |-> "garbage"]
Json(v) == [kind |-> "json", val |-> v]

-----------------------------------------------------------------------------
(* Program constants                                                       *)

MULTI_PROJECT_SESSION_VERSION == 8

DefaultProjectName == "Default Project"

EmptyData ==
    [ mapLayout |-> [nodes |-> <<>>, links |-> <<>>, logicalConstructs |-> <<>>],
      mapTrayConceptIds |-> <<>>,
      trackedFeeds |-> <<>>,
      seenPublicationIds |-> <<>>,
      projectDiary |-> <<>> ]

\* createNewProject(name), the id minted from the clock value t
createNewProject(name, t) == [id |-> t, name |-> name, data |-> EmptyData]

-----------------------------------------------------------------------------
(* loadInitialSession: the versioned path (lines 22-78)                    *)

\* a variant of lines 33-43 without the justification wrap of lines 39-41
MigrateLinkKeepString(link) ==
    IF /\ Has(link, "relationshipType")
       /\ link.relationshipType # ""
       /\ ~Has(link, "relationshipTypes")
    THEN Without(With(link, "relationshipTypes", <<link.relationshipType>>),
                 "relationshipType")
    ELSE link

\* lines 33-43: one link through the migration chain
MigrateLink(link) ==
    LET l1 == IF /\ Has(link, "relationshipType")
                 /\ link.relationshipType # ""
                 /\ ~Has(link, "relationshipTypes")
              THEN Without(With(link, "relationshipTypes", <<link.relationshipType>>),
                           "relationshipType")
              ELSE link
    IN  IF Has(l1, "justification") /\ IsString(l1.justification)
        THEN With(l1, "justification",
                  [text |-> l1.justification.str, citations |-> <<>>])
        ELSE l1

\* p.data.projectDiary / p.data.mapLayout.logicalConstructs dereference
\* p.data and p.data.mapLayout: a TypeError when either is undefined
ProjectThrows(p) == ~Has(p, "data") \/ ~Has(p.data, "mapLayout")

\* lines 30-31 and 61-62: backfill of the diary and the constructs
BackfillProject(p) ==
    LET d1 == IF Has(p.data, "projectDiary") THEN p.data
              ELSE With(p.data, "projectDiary", <<>>)
        ml == IF Has(d1.mapLayout, "logicalConstructs") THEN d1.mapLayout
              ELSE With(d1.mapLayout, "logicalConstructs", <<>>)
    IN  With(p, "data", With(d1, "mapLayout", ml))

\* lines 29-45: one project through the migration chain
MigrateProject(p) ==
    LET q == BackfillProject(p)
        ml == q.data.mapLayout
    IN  IF Has(ml, "links")
        THEN With(q, "data",
                  With(q.data, "mapLayout",
                       With(ml, "links", [k \in 1..Len(ml.links) |-> MigrateLink(ml.links[k])])))
        ELSE q

\* lines 46-48 and 65-67: session-level settings default to empty lists
BackfillSettings(s) ==
    LET s1 == IF Has(s, "customRelationshipTypes") THEN s
              ELSE With(s, "customRelationshipTypes", <<>>)
        s2 == IF Has(s1, "disabledDefaultTypes") THEN s1
              ELSE With(s1, "disabledDefaultTypes", <<>>)
    IN  IF Has(s2, "disabledCustomTypes") THEN s2
        ELSE With(s2, "disabledCustomTypes", <<>>)

\* savedSession.projects.forEach(...) over p.data...: throws on a missing
\* projects list or a project without data / mapLayout
ProjectsThrow(s) ==
    \/ ~Has(s, "projects")
    \/ \E i \in 1..Len(s.projects) : ProjectThrows(s.projects[i])

\* a variant of line 27 that also migrates a session at version V
NeedsMigrationLe(s) ==
    \/ ~Has(s, "version")
    \/ s.version <= MULTI_PROJECT_SESSION_VERSION

\* line 27: !savedSession.version || savedSession.version < V
NeedsMigration(s) ==
    \/ ~Has(s, "version")
    \/ s.version = 0
    \/ s.version < MULTI_PROJECT_SESSION_VERSION

\* lines 28-50: the body of the migration
MigrationChain(s) ==
    With(BackfillSettings(With(s, "projects", [k \in 1..Len(s.projects) |-> MigrateProject(s.projects[k])])),
         "version", MULTI_PROJECT_SESSION_VERSION)

\* lines 27-51: the migration step, guard included
MigrationStep(s) == IF NeedsMigration(s) THEN MigrationChain(s) ELSE s
MigrationStepThrows(s) == NeedsMigration(s) /\ ProjectsThrow(s)

\* the migration step is reached and completes without an exception
MigrationReached(str) ==
    /\ str.kind = "json"
    /\ ~IsNullJson(str.val)
    /\ ~MigrationStepThrows(str.val)

\* lines 55-60: transient feed flags are cleared
ResetFeed(feed) == With(With(feed, "isLoading", FALSE), "error", {})

\* lines 54-63: one project through post-load sanitation
SanitizeProject(p) ==
    LET q == IF Has(p.data, "trackedFeeds")
             THEN With(p, "data",
                       With(p.data, "trackedFeeds",
                            [k \in 1..Len(p.data.trackedFeeds) |-> ResetFeed(p.data.trackedFeeds[k])]))
             ELSE p
    IN  BackfillProject(q)

\* lines 69-71: a dangling activeProjectId becomes the first project's id,
\* or null when there is no project
RepairActiveProject(s) ==
    IF /\ Has(s, "activeProjectId")
       /\ \E i \in 1..Len(s.projects) : s.activeProjectId = {s.projects[i].id}
    THEN s
    ELSE With(s, "activeProjectId",
              IF Len(s.projects) > 0 THEN {s.projects[1].id} ELSE {})

\* lines 53-73: post-load sanitation of a session at the current version
Sanitize(s) ==
    RepairActiveProject(
        BackfillSettings(With(s, "projects", [k \in 1..Len(s.projects) |-> SanitizeProject(s.projects[k])])))

\* lines 22-78: what the try block returns, or that control leaves it
\* without a return (absent key, exception caught, or version above V)
NoReturn == [returned |-> FALSE]
TryVersioned(str) ==
    IF str.kind # "json" THEN NoReturn
    ELSE IF IsNullJson(str.val) THEN NoReturn
    ELSE IF MigrationStepThrows(str.val) THEN NoReturn
    ELSE LET m == MigrationStep(str.val)
         IN  IF m.version # MULTI_PROJECT_SESSION_VERSION THEN NoReturn
             ELSE IF ProjectsThrow(m) THEN NoReturn
             ELSE [returned |-> TRUE, val |-> Sanitize(m)]

-----------------------------------------------------------------------------
(* loadInitialSession: the legacy import (lines 80-112)                    *)

\* a variant without the default text: JSON.parse(null) is null
ParseOrNull(str, dflt) == IF str.kind = "json" THEN str.val ELSE NullJson

\* JSON.parse(localStorage.getItem(key) || dflt)
ParseOr(str, dflt) == IF str.kind = "json" THEN str.val ELSE dflt

\* lines 85-91: a legacy link in the current shape
ImportLink(link) ==
    LET base == [ source |-> link.source,
                  target |-> link.target,
                  pathStyle |-> IF Has(link, "pathStyle") THEN link.pathStyle
                                ELSE "straight",
                  relationshipTypes |->
                      << IF Has(link, "relationshipType") /\ link.relationshipType # ""
                         THEN link.relationshipType ELSE "Unclassified" >> ]
    IN  IF Has(link, "justification") /\ IsString(link.justification)
        THEN With(base, "justification",
                  [text |-> link.justification.str, citations |-> <<>>])
        ELSE base

\* lines 82-93
ImportMapLayout(str) ==
    LET old == ParseOr(str, [nodes |-> <<>>, links |-> <<>>, logicalConstructs |-> <<>>])
        l1 == IF Has(old, "links")
              THEN With(old, "links", [k \in 1..Len(old.links) |-> ImportLink(old.links[k])]) ELSE old
    IN  IF Has(l1, "logicalConstructs") THEN l1
        ELSE With(l1, "logicalConstructs", <<>>)

\* The JSON.parse calls of lines 82 and 98-100 and the dereference of line
\* 84 are outside any try block
LegacyThrows(st) ==
    \/ st.mapLayout.kind = "garbage"
    \/ st.mapLayout.kind = "json" /\ IsNullJson(st.mapLayout.val)
    \/ st.mapTrayConceptIds.kind = "garbage"
    \/ st.trackedFeeds.kind = "garbage"
    \/ st.seenPublicationIds.kind = "garbage"

\* lines 95-111, the default project's id minted from clock value t
LegacyImport(st, t) ==
    [ version |-> MULTI_PROJECT_SESSION_VERSION,
      activeProjectId |-> {t},
      projects |->
          << [ id |-> t,
               name |-> DefaultProjectName,
               data |-> [ mapLayout |-> ImportMapLayout(st.mapLayout),
                          mapTrayConceptIds |-> ParseOr(st.mapTrayConceptIds, <<>>),
                          trackedFeeds |-> ParseOr(st.trackedFeeds, <<>>),
                          seenPublicationIds |-> ParseOr(st.seenPublicationIds, <<>>),
                          projectDiary |-> <<>> ] ] >>,
      customRelationshipTypes |-> <<>>,
      disabledDefaultTypes |-> <<>>,
      disabledCustomTypes |-> <<>> ]

\* lines 21-112: the outcome of loadInitialSession on storage st at clock t
loadInitialSession(st, t) ==
    LET v == TryVersioned(st.multiProjectSession)
    IN  IF v.returned THEN [threw |-> FALSE, path |-> "versioned", val |-> v.val]
        ELSE IF LegacyThrows(st) THEN [threw |-> TRUE, path |-> "legacy"]
        ELSE [threw |-> FALSE, path |-> "legacy", val |-> LegacyImport(st, t)]

-----------------------------------------------------------------------------
(* Stored contents the program is started on                               *)

NodeA == [id |-> 1, name |-> "A"]
NodeB == [id |-> 2, name |-> "B"]
NodeC == [id |-> 3, name |-> "C"]
StoredNodes == <<NodeA, NodeB, NodeC>>

\* a link as written by an early version: singular type, string justification
OldLink ==
    [ source |-> 1, target |-> 2, pathStyle |-> "curved",
      relationshipType |-> "Causal", justification |-> [str |-> "because X"] ]
\* a link as written by the current version
NewLink ==
    [ source |-> 2, target |-> 3, pathStyle |-> "straight",
      relationshipTypes |-> <<"Supportive">>,
      justification |-> [text |-> "because Y", citations |-> <<>>],
      justificationState |-> "success",
      implicationsState |-> "idle",
      formalizationState |-> "idle" ]
\* a link carrying both the singular and the plural field
BothLink ==
    [ source |-> 1, target |-> 2, pathStyle |-> "straight",
      relationshipType |-> "Causal", relationshipTypes |-> <<"Supportive">> ]
\* a link carrying neither
BareLink == [source |-> 1, target |-> 3]

StoredLinkLists ==
    { <<>>, <<OldLink>>, <<NewLink>>, <<BothLink>>, <<BareLink>>, <<OldLink, NewLink>> }

StoredFeed == [url |-> "feed", nodeId |-> 1, isLoading |-> TRUE, error |-> {"timeout"}]
StoredEntry == [id |-> 0, type |-> "EXPLORE_CONCEPT"]

StoredLayouts ==
    { [nodes |-> StoredNodes, links |-> ls] : ls \in StoredLinkLists }
    \cup { [nodes |-> StoredNodes, links |-> ls, logicalConstructs |-> <<>>] :
             ls \in StoredLinkLists }
    \cup { [nodes |-> StoredNodes] }

StoredData ==
    LET base(ml) == [ mapLayout |-> ml, mapTrayConceptIds |-> <<1>>,
                      seenPublicationIds |-> <<>> ]
    IN  { base(ml) : ml \in StoredLayouts }
        \cup { With(base(ml), "projectDiary", <<StoredEntry>>) : ml \in StoredLayouts }
        \cup { With(With(base(ml), "projectDiary", <<>>), "trackedFeeds", <<StoredFeed>>) :
                 ml \in StoredLayouts }
        \cup { [mapTrayConceptIds |-> <<1>>] }

SecondProject == [id |-> 2, name |-> "Beta", data |-> EmptyData]

StoredProjectLists ==
    { <<>> }
    \cup { << [id |-> 1, name |-> "Alpha", data |-> d] >> : d \in StoredData }
    \cup { << [id |-> 1, name |-> "Alpha", data |-> d], SecondProject >> : d \in StoredData }
    \cup { << [id |-> 1, name |-> "Alpha"] >> }

\* versions: an early one, the current one, one from a later release
StoredVersions == {3, MULTI_PROJECT_SESSION_VERSION, MULTI_PROJECT_SESSION_VERSION + 1}

StoredSessions ==
    LET core == { [projects |-> ps] : ps \in StoredProjectLists }
                \cup { [projects |-> ps, activeProjectId |-> a] :
                         ps \in StoredProjectLists, a \in {{}, {1}, {2}, {9}} }
                \cup { [activeProjectId |-> {1}] }
        versioned == core \cup { With(c, "version", v) : c \in core, v \in StoredVersions }
    IN  versioned
        \cup { With(With(With(c, "customRelationshipTypes", <<>>),
                         "disabledDefaultTypes", <<"Causal">>),
                    "disabledCustomTypes", <<>>) : c \in versioned }

LegacyLayouts ==
    { NullJson,
      [nodes |-> StoredNodes, links |-> <<OldLink, BareLink>>],
      [nodes |-> StoredNodes, links |-> <<>>, logicalConstructs |-> <<>>] }

AllAbsent ==
    [ multiProjectSession |-> Absent, mapLayout |-> Absent,
      mapTrayConceptIds |-> Absent, trackedFeeds |-> Absent,
      seenPublicationIds |-> Absent ]

\* blobs that leave the try block without a return
FallThroughBlobs ==
    { Absent, Garbage, Json(NullJson),
      Json([version |-> 3, activeProjectId |-> {1}]),
      Json([version |-> MULTI_PROJECT_SESSION_VERSION,
            projects |-> << [id |-> 1, name |-> "Alpha"] >>]),
      Json([version |-> MULTI_PROJECT_SESSION_VERSION + 1, activeProjectId |-> {2},
            projects |-> <<SecondProject>>]) }

LegacyStorages ==
    { [ multiProjectSession |-> b, mapLayout |-> ml, mapTrayConceptIds |-> tr,
        trackedFeeds |-> fd, seenPublicationIds |-> sn ] :
        b \in FallThroughBlobs,
        ml \in {Absent, Garbage} \cup { Json(l) : l \in LegacyLayouts },
        tr \in {Absent, Garbage, Json(<<1, 2>>)},
        fd \in {Absent, Garbage, Json(<<StoredFeed>>)},
        sn \in {Absent, Garbage, Json(<<7>>)} }

VersionedStorages ==
    { [AllAbsent EXCEPT !.multiProjectSession = Json(s)] : s \in StoredSessions }
    \cup { [AllAbsent EXCEPT !.multiProjectSession = Json(s), !.mapLayout = Garbage] :
             s \in StoredSessions }

Storages == LegacyStorages \cup VersionedStorages

NoSession == [unloaded |-> TRUE]

-----------------------------------------------------------------------------
(* Start-up and reload                                                     *)

\* useState(loadInitialSession) (line 116) followed by the effect of lines
\* 118-120, which writes the session back under 'multiProjectSession'
Load ==
    /\ phase = "boot"
    /\ LET r == loadInitialSession(storage, clock)
           blob == storage.multiProjectSession
           op == [op |-> "load", before |-> storage, path |-> r.path]
       IN  /\ lastOp' = IF MigrationReached(blob)
                        THEN With(op, "migrated", MigrationStep(blob.val))
                        ELSE op
           /\ IF r.threw
              THEN /\ phase' = "crashed"
                   /\ UNCHANGED <<session, storage, clock>>
              ELSE /\ phase' = "running"
                   /\ session' = r.val
                   /\ storage' = [storage EXCEPT !.multiProjectSession = Json(r.val)]
                   /\ clock' = IF r.path = "legacy" THEN clock + 1 ELSE clock
    /\ UNCHANGED uiVars

\* The page is reloaded: hook state is discarded, localStorage stays
Reload ==
    /\ phase \in {"running", "crashed"}
    /\ phase' = "boot"
    /\ session' = NoSession
    /\ lastOp' = [op |-> "reload"]
    /\ linkingNode' = {}
    /\ relationshipMenu' = {}
    /\ logicalWorkbench' = {}
    /\ linkContextMenu' = {}
    /\ formalizationResult' = {}
    /\ pending' = {}
    /\ UNCHANGED <<storage, clock>>

InitLoad ==
    /\ storage \in Storages
    /\ phase = "boot"
    /\ session = NoSession
    /\ clock = 3
    /\ lastOp = [op |-> "init"]
    /\ HooksIdle

NextLoad == Load \/ Reload

SpecLoad == InitLoad /\ [][NextLoad]_vars

-----------------------------------------------------------------------------
(* Project store (useSessionManager, lines 115-203)                        *)

MaxClock == 5
MaxProjects == 3
MaxDiary == 2
MaxInFlight == 2

NewNames == {"Gamma"}
ProjectIds(s) == { s.projects[i].id : i \in 1..Len(s.projects) }
\* ids passed to the operations: those of the projects and one of no project
NoSuchProject == {0}
IdInputs(s) == ProjectIds(s) \cup NoSuchProject

\* Every committed session is written back by the effect of lines 118-120
Commit(next, op) ==
    /\ session' = next
    /\ storage' = [storage EXCEPT !.multiProjectSession = Json(next)]
    /\ lastOp' = op

\* lines 122-125: the project shown as active ({} = null)
activeProject(s) ==
    IF s.activeProjectId = {} THEN {}
    ELSE IF \E i \in 1..Len(s.projects) : s.activeProjectId = {s.projects[i].id}
    THEN { s.projects[CHOOSE i \in 1..Len(s.projects) :
               /\ s.activeProjectId = {s.projects[i].id}
               /\ \A k \in 1..(i - 1) : s.activeProjectId # {s.projects[k].id}] }
    ELSE IF Len(s.projects) > 0 THEN {s.projects[1]}
    ELSE {}

\* prev.logicalConstructs || []
Constructs(ml) == IF Has(ml, "logicalConstructs") THEN ml.logicalConstructs ELSE <<>>

Includes(seq, x) == \E i \in 1..Len(seq) : seq[i] = x

\* a variant of lines 159-163 that leaves the logical constructs alone
DeleteNodeKeepConstructs(ml, nodeId) ==
    [ nodes |-> SelectSeq(ml.nodes, LAMBDA n : n.id # nodeId),
      links |-> SelectSeq(ml.links,
                          LAMBDA l : l.source # nodeId /\ l.target # nodeId),
      logicalConstructs |-> Constructs(ml) ]

\* useMapUI.ts lines 159-163: the layout deleteNode(nodeId) produces
DeleteNodeLayout(ml, nodeId) ==
    [ nodes |-> SelectSeq(ml.nodes, LAMBDA n : n.id # nodeId),
      links |-> SelectSeq(ml.links,
                          LAMBDA l : l.source # nodeId /\ l.target # nodeId),
      logicalConstructs |->
          SelectSeq(Constructs(ml),
                    LAMBDA c : /\ c.conclusionNodeId # nodeId
                               /\ ~Includes(c.premiseNodeIds, nodeId)) ]

\* { ...l, field: value, ... }
Merge(o, patch) ==
    [k \in (DOMAIN o) \cup (DOMAIN patch) |->
        IF k \in DOMAIN patch THEN patch[k] ELSE o[k]]

\* useMapUI.ts line 101: the node as the change of concept leaves it; the
\* key written as undefined reads as absent and is dropped when the session
\* is stored
ReplacedNode(n, newNode) ==
    Without(Merge(n, [ id |-> newNode.id, name |-> newNode.name,
                       isAiGenerated |-> FALSE, isHistorical |-> FALSE,
                       isUserDefined |-> FALSE, isDialectic |-> FALSE,
                       isCitation |-> FALSE ]),
            "synthesisInfo")

\* a variant that rewrites the links leaving the node and not those
\* arriving at it
ReplaceNodeLayoutSources(ml, oldId, newNode) ==
    With(With(ml, "nodes",
              [k \in 1..Len(ml.nodes) |->
                  IF ml.nodes[k].id = oldId
                  THEN ReplacedNode(ml.nodes[k], newNode)
                  ELSE ml.nodes[k]]),
         "links",
         [k \in 1..Len(ml.links) |->
             IF ml.links[k].source = oldId
             THEN With(ml.links[k], "source", newNode.id)
             ELSE ml.links[k]])
\* useMapUI.ts lines 98-110: the node's id and name are replaced, and the
\* source or the target of every link that named it
ReplaceNodeLayout(ml, oldId, newNode) ==
    With(With(ml, "nodes",
              [k \in 1..Len(ml.nodes) |->
                  IF ml.nodes[k].id = oldId
                  THEN ReplacedNode(ml.nodes[k], newNode)
                  ELSE ml.nodes[k]]),
         "links",
         [k \in 1..Len(ml.links) |->
             IF ml.links[k].source = oldId
             THEN With(ml.links[k], "source", newNode.id)
             ELSE IF ml.links[k].target = oldId
             THEN With(ml.links[k], "target", newNode.id)
             ELSE ml.links[k]])

\* a variant that writes a link made anew from the two ends and the patch
\* in the place of the matching link, instead of spreading the link found
PatchLinksAnew(ml, source, target, patch) ==
    With(ml, "links",
         [k \in 1..Len(ml.links) |->
             IF ml.links[k].source = source /\ ml.links[k].target = target
             THEN Merge([ source |-> source, target |-> target,
                          pathStyle |-> "straight",
                          relationshipTypes |-> <<"Unclassified">> ], patch)
             ELSE ml.links[k]])
\* links.map(l => (l.source === source && l.target === target) ? {...l, ...} : l)
PatchLinks(ml, source, target, patch) ==
    With(ml, "links",
         [k \in 1..Len(ml.links) |->
             IF ml.links[k].source = source /\ ml.links[k].target = target
             THEN Merge(ml.links[k], patch)
             ELSE ml.links[k]])

\* nodes.map(n => n.id === nodeId ? { ...n, field: value } : n)
PatchNode(ml, nodeId, patch) ==
    With(ml, "nodes",
         [k \in 1..Len(ml.nodes) |->
             IF ml.nodes[k].id = nodeId THEN Merge(ml.nodes[k], patch)
             ELSE ml.nodes[k]])

\* The updaters the map hooks pass to setLayout, as data
ApplyLayoutUpdater(u, ml) ==
    CASE u.kind = "deleteNode" -> DeleteNodeLayout(ml, u.id)
      [] u.kind = "patchNode" -> PatchNode(ml, u.id, u.patch)
      [] u.kind = "replaceNode" -> ReplaceNodeLayout(ml, u.oldId, u.newNode)
      [] u.kind = "patchLinks" -> PatchLinks(ml, u.source, u.target, u.patch)
      [] u.kind = "deleteLink" ->
            With(ml, "links",
                 SelectSeq(ml.links,
                           LAMBDA l : ~(l.source = u.source /\ l.target = u.target)))
      [] u.kind = "insert" ->
            With(With(ml, "nodes", ml.nodes \o u.nodes), "links", ml.links \o u.links)
      [] u.kind = "appendConstruct" ->
            With(ml, "logicalConstructs", Append(Constructs(ml), u.construct))

\* The updaters callers pass to updateActiveProjectData, as data:
\* App.tsx lines 202-205 and 209 (tray), useSessionManager.ts lines 151-154
\* (diary), App.tsx line 316 with useMapUI.ts lines 216-227 (link appended)
ApplyUpdater(u, d) ==
    CASE u.kind = "addToTray" ->
            IF Includes(d.mapTrayConceptIds, u.id) THEN d
            ELSE With(d, "mapTrayConceptIds", Append(d.mapTrayConceptIds, u.id))
      [] u.kind = "removeFromTray" ->
            With(d, "mapTrayConceptIds",
                 SelectSeq(d.mapTrayConceptIds, LAMBDA c : c # u.id))
      [] u.kind = "prependActivity" ->
            With(d, "projectDiary", <<u.entry>> \o d.projectDiary)
      [] u.kind = "appendLink" ->
            With(d, "mapLayout",
                 With(d.mapLayout, "links", Append(d.mapLayout.links, u.link)))
      [] u.kind = "setLayout" ->
            With(d, "mapLayout", ApplyLayoutUpdater(u.updater, d.mapLayout))

Updaters ==
    { [kind |-> "addToTray", id |-> 1], [kind |-> "removeFromTray", id |-> 1] }

\* a variant of line 133 that takes every project for the active one
IsActiveAny(s, p) == TRUE
\* line 133: p.id === prevSession.activeProjectId
IsActive(s, p) == s.activeProjectId = {p.id}

\* lines 129-140: the updater u is applied to the data of the project whose
\* id is activeProjectId
updateActiveProjectData(s, u) ==
    IF s.activeProjectId = {} THEN s
    ELSE With(s, "projects",
              [i \in 1..Len(s.projects) |->
                  IF IsActive(s, s.projects[i])
                  THEN With(s.projects[i], "data", ApplyUpdater(u, s.projects[i].data))
                  ELSE s.projects[i]])

\* lines 142-155: logActivity(type, payload), the entry's id minted at t
logActivity(s, type, t) ==
    IF activeProject(s) = {} THEN s
    ELSE updateActiveProjectData(s,
             [kind |-> "prependActivity", entry |-> [id |-> t, type |-> type]])

\* lines 157-164
handleCreateProject(s, name, t) ==
    With(With(s, "projects", Append(s.projects, createNewProject(name, t))),
         "activeProjectId", {t})

\* lines 166-168
handleSwitchProject(s, projectId) == With(s, "activeProjectId", {projectId})

\* a variant of lines 170-182 without the default project of lines 173-174
handleDeleteProjectNoDefault(s, projectId, t) ==
    LET remainingProjects == SelectSeq(s.projects, LAMBDA p : p.id # projectId)
    IN  With(With(s, "projects", remainingProjects),
             "activeProjectId",
             IF Len(remainingProjects) = 0 THEN {}
             ELSE IF s.activeProjectId = {projectId} THEN {remainingProjects[1].id}
             ELSE s.activeProjectId)

\* lines 170-182, a synthesized default project's id minted at t
handleDeleteProject(s, projectId, t) ==
    LET remainingProjects == SelectSeq(s.projects, LAMBDA p : p.id # projectId)
    IN  IF Len(remainingProjects) = 0
        THEN With(With(s, "projects", <<createNewProject(DefaultProjectName, t)>>),
                  "activeProjectId", {t})
        ELSE With(With(s, "projects", remainingProjects),
                  "activeProjectId",
                  IF s.activeProjectId = {projectId}
                  THEN {remainingProjects[1].id}
                  ELSE s.activeProjectId)

\* lines 184-189
handleRenameProject(s, projectId, newName) ==
    With(s, "projects",
         [i \in 1..Len(s.projects) |->
             IF s.projects[i].id = projectId
             THEN With(s.projects[i], "name", newName)
             ELSE s.projects[i]])

Running == phase = "running"
DiaryRoom(s) ==
    \A i \in 1..Len(s.projects) : Len(s.projects[i].data.projectDiary) < MaxDiary

CreateProject ==
    /\ Running /\ clock < MaxClock /\ Len(session.projects) < MaxProjects
    /\ \E name \in NewNames :
          Commit(handleCreateProject(session, name, clock),
                 [op |-> "createProject", name |-> name])
    /\ clock' = clock + 1
    /\ UNCHANGED <<phase, uiVars>>

SwitchProject ==
    /\ Running
    /\ \E id \in IdInputs(session) :
          Commit(handleSwitchProject(session, id), [op |-> "switchProject", id |-> id])
    /\ UNCHANGED <<phase, clock, uiVars>>

DeleteProject ==
    /\ Running /\ clock < MaxClock
    /\ \E id \in IdInputs(session) :
          /\ Commit(handleDeleteProject(session, id, clock),
                    [op |-> "deleteProject", id |-> id,
                     emptied |-> ProjectIds(session) \subseteq {id}])
          /\ clock' = IF ProjectIds(session) \subseteq {id} THEN clock + 1 ELSE clock
    /\ UNCHANGED <<phase, uiVars>>

RenameProject ==
    /\ Running
    /\ \E id \in IdInputs(session), name \in NewNames :
          Commit(handleRenameProject(session, id, name),
                 [op |-> "renameProject", id |-> id, name |-> name])
    /\ UNCHANGED <<phase, clock, uiVars>>

UpdateActiveProjectData ==
    /\ Running
    /\ \E u \in Updaters :
          Commit(updateActiveProjectData(session, u),
                 [op |-> "updateActiveProjectData", updater |-> u])
    /\ UNCHANGED <<phase, clock, uiVars>>

LogActivity ==
    /\ Running /\ clock < MaxClock /\ DiaryRoom(session)
    /\ Commit(logActivity(session, "EXPLORE_CONCEPT", clock),
              [op |-> "logActivity", id |-> clock])
    /\ clock' = clock + 1
    /\ UNCHANGED <<phase, uiVars>>

TwoProjects ==
    [ version |-> MULTI_PROJECT_SESSION_VERSION,
      activeProjectId |-> {1},
      projects |-> << [ id |-> 1, name |-> "Alpha",
                        data |-> [EmptyData EXCEPT !.mapTrayConceptIds = <<1>>] ],
                      SecondProject >>,
      customRelationshipTypes |-> <<>>,
      disabledDefaultTypes |-> <<"Causal">>,
      disabledCustomTypes |-> <<>> ]

SessionStorages ==
    { AllAbsent,
      [AllAbsent EXCEPT !.multiProjectSession = Json(TwoProjects)],
      [AllAbsent EXCEPT !.multiProjectSession =
          Json([version |-> MULTI_PROJECT_SESSION_VERSION, projects |-> <<>>])] }

InitSession ==
    /\ storage \in SessionStorages
    /\ phase = "boot"
    /\ session = NoSession
    /\ clock = 3
    /\ lastOp = [op |-> "init"]
    /\ HooksIdle

NextSession ==
    \/ Load
    \/ CreateProject
    \/ SwitchProject
    \/ DeleteProject
    \/ RenameProject
    \/ UpdateActiveProjectData
    \/ LogActivity

SpecSession == InitSession /\ [][NextSession]_vars

-----------------------------------------------------------------------------
(* The argument map: linking two nodes                                     *)
(* useMapUI.ts, the interaction hook (part_000) and App.tsx                *)

RelationshipTypeInputs == { <<>>, <<"Supportive">>, <<"Causal">> }

\* App.tsx line 315: the layout handed to MapBuilder is the shown project's
Shown(s) == CHOOSE p \in activeProject(s) : TRUE
MapShown == Running /\ activeProject(session) # {}
NodeIds(s) ==
    { Shown(s).data.mapLayout.nodes[i].id :
        i \in 1..Len(Shown(s).data.mapLayout.nodes) }

\* index.tsx line 117: nodeMap.get(id) is defined
InNodeMap(s, id) == id \in NodeIds(s)

\* useMapUI.ts lines 219-227: the link object createLink appends
NewMapLink(sourceId, targetId, relationshipTypes) ==
    [ source |-> sourceId, target |-> targetId, pathStyle |-> "straight",
      relationshipTypes |-> IF Len(relationshipTypes) > 0 THEN relationshipTypes
                            ELSE <<"Unclassified">>,
      justificationState |-> "idle",
      implicationsState |-> "idle",
      formalizationState |-> "idle" ]

\* useMapUI.ts lines 204-228: createLink, the diary entry's id minted at t;
\* setLayout is updateActiveProjectData on mapLayout (App.tsx line 316)
createLink(s, sourceId, targetId, relationshipTypes, t) ==
    IF InNodeMap(s, sourceId) /\ InNodeMap(s, targetId)
    THEN updateActiveProjectData(logActivity(s, "CREATE_MAP_LINK", t),
             [kind |-> "appendLink",
              link |-> NewMapLink(sourceId, targetId, relationshipTypes)])
    ELSE s

\* part_000 line 76: links.find(...) over the shown links, both directions
ExistingLink(s, a, b) ==
    \E i \in 1..Len(Shown(s).data.mapLayout.links) :
        LET l == Shown(s).data.mapLayout.links[i]
        IN  \/ l.source = a /\ l.target = b
            \/ l.source = b /\ l.target = a

\* part_000 lines 291-297 (the node's context menu opens, clearSelections
\* runs) followed by the menu's link entry, which calls setLinkingNode
\* (index.tsx line 247)
StartLinking ==
    /\ MapShown
    /\ \E n \in NodeIds(session) :
          linkingNode' = {n}
    /\ lastOp' = [op |-> "setLinkingNode"]
    /\ relationshipMenu' = {}
    /\ logicalWorkbench' = {}
    /\ linkContextMenu' = {}
    /\ UNCHANGED <<storage, phase, session, clock, aiVars>>

\* part_000 lines 62-99: handleNodeClick
HandleNodeClick ==
    /\ MapShown
    /\ \E n \in NodeIds(session) :
          IF linkingNode # {}
             THEN /\ linkingNode' = {}
                  /\ relationshipMenu' =
                        IF /\ linkingNode # {n}
                           /\ \A a \in linkingNode :
                                 ~ExistingLink(session, a, n) /\ InNodeMap(session, a)
                        THEN { [sourceId |-> a, targetId |-> n] : a \in linkingNode }
                        ELSE relationshipMenu
             ELSE UNCHANGED linkVars
    /\ lastOp' = [op |-> "handleNodeClick"]
    /\ UNCHANGED <<storage, phase, session, clock, logicalWorkbench, linkContextMenu, aiVars>>

\* index.tsx line 256: the open relationship menu calls createLink with its
\* sourceId and targetId and the types chosen
ChooseRelationship ==
    /\ MapShown /\ relationshipMenu # {}
    /\ clock < MaxClock /\ DiaryRoom(session)
    /\ \E m \in relationshipMenu, types \in RelationshipTypeInputs :
          Commit(createLink(session, m.sourceId, m.targetId, types, clock),
                 [op |-> "createLink", source |-> m.sourceId,
                  target |-> m.targetId, types |-> types])
    /\ relationshipMenu' = {}
    /\ clock' = clock + 1
    /\ UNCHANGED <<phase, linkingNode, logicalWorkbench, linkContextMenu, aiVars>>

\* useMapUI.ts lines 38-53, run by a click on the canvas (part_000 line 103)
ClearSelections ==
    /\ MapShown
    /\ linkingNode' = {}
    /\ relationshipMenu' = {}
    /\ logicalWorkbench' = {}
    /\ linkContextMenu' = {}
    /\ lastOp' = [op |-> "clearSelections"]
    /\ UNCHANGED <<storage, phase, session, clock, aiVars>>

MapData(nodes, ls) ==
    [EmptyData EXCEPT !.mapLayout =
        [nodes |-> nodes, links |-> ls, logicalConstructs |-> <<>>]]

\* two projects whose maps share the concepts A and B
TwoMaps ==
    [ version |-> MULTI_PROJECT_SESSION_VERSION,
      activeProjectId |-> {1},
      projects |-> << [id |-> 1, name |-> "Alpha",
                       data |-> MapData(<<NodeA, NodeB, NodeC>>, <<NewLink>>)],
                      [id |-> 2, name |-> "Beta",
                       data |-> MapData(<<NodeA, NodeB>>, <<>>)] >>,
      customRelationshipTypes |-> <<>>,
      disabledDefaultTypes |-> <<>>,
      disabledCustomTypes |-> <<>> ]

GraphStorages == { [AllAbsent EXCEPT !.multiProjectSession = Json(TwoMaps)] }

InitGraph ==
    /\ storage \in GraphStorages
    /\ phase = "boot"
    /\ session = NoSession
    /\ clock = 3
    /\ lastOp = [op |-> "init"]
    /\ HooksIdle

NextGraph ==
    \/ Load
    \/ SwitchProject
    \/ StartLinking
    \/ HandleNodeClick
    \/ ChooseRelationship
    \/ ClearSelections

SpecGraph == InitGraph /\ [][NextGraph]_vars

-----------------------------------------------------------------------------
(* The argument map: structural edits                                      *)
(* useMapUI.ts and the interaction hook (part_000)                         *)

\* Ids built from Date.now(): the prefix and the time t of the handler
CitationId(t) == 100 + t
UserId(t) == 200 + t
SynthId(t) == 300 + t
DialecticId(t) == 400 + t
CounterId(t) == 500 + t
ConstructId(t) == 600 + t

\* App.tsx line 316: setLayout(updater)
setLayout(s, u) == updateActiveProjectData(s, [kind |-> "setLayout", updater |-> u])

ShownLayout(s) == Shown(s).data.mapLayout
ShownLinks(s) ==
    { ShownLayout(s).links[i] : i \in 1..Len(ShownLayout(s).links) }

\* useMapUI.ts lines 158-165
deleteNode(s, nodeId) == setLayout(s, [kind |-> "deleteNode", id |-> nodeId])

\* useMapUI.ts lines 196-202
deleteLink(s, link) ==
    setLayout(s, [kind |-> "deleteLink", source |-> link.source, target |-> link.target])

\* useMapUI.ts lines 183-194
updateLinkRelationshipTypesAsGiven(s, linkToUpdate, newTypes) ==
    setLayout(s, [kind |-> "patchLinks",
                  source |-> linkToUpdate.source, target |-> linkToUpdate.target,
                  patch |-> [relationshipTypes |-> newTypes]])
updateLinkRelationshipTypes(s, linkToUpdate, newTypes) ==
    setLayout(s, [kind |-> "patchLinks",
                  source |-> linkToUpdate.source, target |-> linkToUpdate.target,
                  patch |-> [relationshipTypes |->
                                IF Len(newTypes) > 0 THEN newTypes
                                ELSE <<"Unclassified">>]])

\* useMapUI.ts lines 167-173
updateNodeShape(s, nodeId, shape) ==
    setLayout(s, [kind |-> "patchNode", id |-> nodeId, patch |-> [shape |-> shape]])

\* useMapUI.ts lines 279-289: the note is written, then EDIT_NOTE is logged
handleSaveNote(s, nodeId, content, t) ==
    logActivity(setLayout(s, [kind |-> "patchNode", id |-> nodeId,
                              patch |-> [notes |-> content]]),
                "EDIT_NOTE", t)

\* useMapUI.ts lines 175-181
updateLinkPathStyle(s, link, pathStyle) ==
    setLayout(s, [kind |-> "patchLinks",
                  source |-> link.source, target |-> link.target,
                  patch |-> [pathStyle |-> pathStyle]])

\* useMapUI.ts lines 88-115, changingNodeState.nodeId = nodeId
handleConceptChangeSelect(s, nodeId, newNodeData, t) ==
    setLayout(logActivity(s, "CHANGE_CONCEPT", t),
              [kind |-> "replaceNode", oldId |-> nodeId, newNode |-> newNodeData])

\* useMapUI.ts lines 241-270
handlePinCitation(s, link, t) ==
    setLayout(s, [kind |-> "insert",
                  nodes |-> << [ id |-> CitationId(t), name |-> "citation",
                                 isCitation |-> TRUE,
                                 citationData |-> "citation" ] >>,
                  links |-> << [ source |-> link.source, target |-> CitationId(t),
                                 pathStyle |-> "curved",
                                 relationshipTypes |-> <<"Cited">> ] >>])

\* part_000 lines 115-132
handleBackgroundDoubleClick(s, t) ==
    setLayout(s, [kind |-> "insert",
                  nodes |-> << [ id |-> UserId(t), name |-> "New Concept",
                                 isUserDefined |-> TRUE ] >>,
                  links |-> <<>>])

\* part_000 lines 273-284
handleDrop(s, droppedNode) ==
    IF InNodeMap(s, droppedNode.id) THEN s
    ELSE setLayout(s, [kind |-> "insert",
                       nodes |-> << [id |-> droppedNode.id, name |-> droppedNode.name] >>,
                       links |-> <<>>])

\* useMapAI.ts lines 536-563: handleFormalizeArgument dispatches a request
\* (no test of isFormalizing or of the link's formalizationState); a request
\* on a link first marks the link as loading
SameRequests(kind, link) == { r \in pending : r.kind = kind /\ r.link = link }
\* requests for the same field of the same link differ in nothing their
\* responses use: the one answered is taken to be the latest of them
LatestRequest(r) == \A q \in SameRequests(r.kind, r.link) : q.n <= r.n
\* history: project is the id of the project shown when the request is sent
\* (the code keeps no such thing with the request)
NewRequest(kind, link) ==
    [kind |-> kind, link |-> link,
     n |-> CHOOSE n \in 1..(Cardinality(SameRequests(kind, link)) + 1) :
              \A r \in SameRequests(kind, link) : r.n # n,
     project |-> { p.id : p \in activeProject(session) }]

\* part_000 lines 306-335: the argument read off a region selection; the
\* conclusion is the one selected node that is a target and not a source of
\* the links inside the region
InternalLinks(s, region) ==
    { l \in ShownLinks(s) : l.source \in region /\ l.target \in region }
ConclusionNodes(s, region) ==
    { n \in region \cap NodeIds(s) :
        /\ \E l \in InternalLinks(s, region) : l.target = n
        /\ \A l \in InternalLinks(s, region) : l.source # n }
IdsOf(nodes) == [k \in 1..Len(nodes) |-> nodes[k].id]
\* a variant that keeps every selected node as a premise, the conclusion
\* included
CombinedArgumentOfAll(s, region) ==
    LET conclusion == CHOOSE n \in ConclusionNodes(s, region) : TRUE
    IN  [ premises |-> SelectSeq(IdsOf(ShownLayout(s).nodes),
                                 LAMBDA n : n \in region),
          conclusion |-> conclusion ]
CombinedArgument(s, region) ==
    LET conclusion == CHOOSE n \in ConclusionNodes(s, region) : TRUE
    IN  [ premises |-> SelectSeq(IdsOf(ShownLayout(s).nodes),
                                 LAMBDA n : n \in region /\ n # conclusion),
          conclusion |-> conclusion ]

\* part_000 lines 315-326: the two tests an argument must pass; failing
\* one, the handler alerts and returns
ArgumentRead(s, region) ==
    /\ Cardinality(ConclusionNodes(s, region)) = 1
    /\ Len(CombinedArgument(s, region).premises) > 0

\* useMapAI.ts lines 611-646: the result parsed from the response to a
\* formalization request. What the model answers is not modelled; each of
\* the result's texts stands for the argument its prompt described (about:
\* the premises and conclusion of a combined argument, or the ends of a
\* link), with one choice on offer
FormalizationResultFor(about) ==
    [ propositions |-> about,
      critique |-> about,
      choices |-> << [ formalRepresentation |-> about,
                       suggestedSystem |-> about,
                       rationale |-> about ] >> ]

\* useMapUI.ts lines 117-146, the construct's id built at time t; the
\* argument is the one of the workbench, the formalization the one the
\* caller passes (index.tsx line 267: the hook's last result)
handleCreateLogicalConstruct(s, combinedArgument, formalizationResult_, selectedFormalizationIndex, t) ==
    LET selectedChoice == formalizationResult_.choices[selectedFormalizationIndex]
    IN  setLayout(logActivity(s, "CREATE_LOGICAL_CONSTRUCT", t),
              [kind |-> "appendConstruct",
               construct |-> [ id |-> ConstructId(t),
                               premiseNodeIds |-> combinedArgument.premises,
                               conclusionNodeId |-> combinedArgument.conclusion,
                               operator |-> "AND",
                               propositions |-> formalizationResult_.propositions,
                               critique |-> formalizationResult_.critique,
                               formalRepresentation |-> selectedChoice.formalRepresentation,
                               suggestedSystem |-> selectedChoice.suggestedSystem,
                               rationale |-> selectedChoice.rationale ]])

\* the catalogue of concepts (allNodes) a node can be dropped or changed to
NodeD == [id |-> 4, name |-> "D"]
Catalogue == {NodeA, NodeB, NodeC, NodeD}
DropInputs == {NodeA, NodeD}
TypeEdits == { <<>>, <<"Causal">> }

\* clearSelections (useMapUI.ts lines 38-53) as run when a context menu
\* opens (part_000 line 294, useMapUI.ts line 275) or the canvas is clicked
SelectionsCleared ==
    /\ linkingNode' = {}
    /\ relationshipMenu' = {}
    /\ logicalWorkbench' = {}
    /\ linkContextMenu' = {}
    /\ UNCHANGED aiVars

\* the node's context menu opens (part_000 lines 291-297) and its delete
\* entry calls deleteNode (index.tsx line 247)
DeleteNode ==
    /\ MapShown
    /\ \E n \in NodeIds(session) :
          Commit(deleteNode(session, n), [op |-> "deleteNode", id |-> n])
    /\ SelectionsCleared
    /\ UNCHANGED <<phase, clock>>

\* the link's context menu opens (useMapUI.ts lines 272-277) and its
\* delete entry calls deleteLink (index.tsx line 542), which closes the
\* menu (useMapUI.ts line 201)
DeleteLink ==
    /\ MapShown
    /\ \E l \in ShownLinks(session) :
          Commit(deleteLink(session, l), [op |-> "deleteLink"])
    /\ SelectionsCleared
    /\ UNCHANGED <<phase, clock>>

\* the link's context menu opens, "Edit Types" opens the type menu
\* (index.tsx line 538), a box is ticked or unticked (index.tsx line 250)
UpdateLinkRelationshipTypes ==
    /\ MapShown
    /\ \E l \in ShownLinks(session), types \in TypeEdits :
          Commit(updateLinkRelationshipTypes(session, l, types),
                 [op |-> "updateLinkRelationshipTypes", types |-> types])
    /\ SelectionsCleared
    /\ UNCHANGED <<phase, clock>>

\* the open link menu's "Toggle Path" entry (index.tsx line 540) calls
\* updateLinkPathStyle with the menu's link and the style its copy of the
\* link does not have; updateLinkPathStyle closes the menu
UpdateLinkPathStyle ==
    /\ MapShown
    /\ \E l \in linkContextMenu :
          Commit(updateLinkPathStyle(session, l,
                     IF Has(l, "pathStyle") /\ l.pathStyle = "straight"
                     THEN "curved" ELSE "straight"),
                 [op |-> "updateLinkPathStyle"])
    /\ linkContextMenu' = {}
    /\ UNCHANGED <<phase, clock, linkVars, logicalWorkbench, aiVars>>

\* the node's context menu sets changingNodeState (index.tsx line 247), the
\* search offers the catalogue concepts not on the map (useMapUI.ts lines
\* 65-66), one is chosen (index.tsx line 257)
ReplaceNodeIdentity ==
    /\ MapShown /\ clock < MaxClock /\ DiaryRoom(session)
    /\ \E n \in NodeIds(session), c \in Catalogue :
          /\ ~InNodeMap(session, c.id)
          /\ Commit(handleConceptChangeSelect(session, n, c, clock),
                    [op |-> "handleConceptChangeSelect", id |-> n, newId |-> c.id])
    /\ clock' = clock + 1
    /\ SelectionsCleared
    /\ UNCHANGED phase

\* the node's context menu opens (part_000 lines 291-297) and one of its
\* shape entries calls updateNodeShape (index.tsx line 247)
NodeShapes == {"rect", "circle"}
UpdateNodeShape ==
    /\ MapShown
    /\ \E n \in NodeIds(session), shape \in NodeShapes :
          Commit(updateNodeShape(session, n, shape),
                 [op |-> "updateNodeShape", id |-> n])
    /\ SelectionsCleared
    /\ UNCHANGED <<phase, clock>>

\* the note editor of a node saves its text (index.tsx line 292)
NoteInputs == {"note"}
SaveNote ==
    /\ MapShown /\ clock < MaxClock /\ DiaryRoom(session)
    /\ \E n \in NodeIds(session), content \in NoteInputs :
          Commit(handleSaveNote(session, n, content, clock),
                 [op |-> "handleSaveNote", id |-> n])
    /\ clock' = clock + 1
    /\ UNCHANGED <<phase, uiVars>>

\* a citation of a link's justification is pinned (index.tsx line 54)
PinCitation ==
    /\ MapShown /\ clock < MaxClock
    /\ \E l \in ShownLinks(session) :
          Commit(handlePinCitation(session, l, clock), [op |-> "handlePinCitation"])
    /\ clock' = clock + 1
    /\ UNCHANGED <<phase, uiVars>>

\* a double click on the canvas: its two clicks run handleBackgroundClick
\* (part_000 lines 100-104), then handleBackgroundDoubleClick
CreateUserNode ==
    /\ MapShown /\ clock < MaxClock
    /\ Commit(handleBackgroundDoubleClick(session, clock),
              [op |-> "handleBackgroundDoubleClick"])
    /\ clock' = clock + 1
    /\ SelectionsCleared
    /\ UNCHANGED phase

\* a concept of the tray is dropped on the canvas
DropNode ==
    /\ MapShown
    /\ \E c \in DropInputs :
          Commit(handleDrop(session, c), [op |-> "handleDrop"])
    /\ UNCHANGED <<phase, clock, uiVars>>

\* part_000 lines 306-335: a region is selected and the workbench opened on
\* it; handleFormalizeArgument (useMapAI.ts lines 536-563) clears the last
\* result and sends the request
OpenCombinedArgumentWorkbench ==
    /\ MapShown
    /\ \E region \in SUBSET NodeIds(session) :
          IF ArgumentRead(session, region)
          THEN /\ logicalWorkbench' =
                     { [combinedArgument |-> CombinedArgument(session, region)] }
               /\ Cardinality(SameRequests("formalization", {})) < MaxInFlight
               /\ pending' = pending \cup
                     { With(NewRequest("formalization", {}), "argument",
                            CombinedArgument(session, region)) }
               /\ formalizationResult' = {}
               /\ lastOp' = [op |-> "handleFormalizeArgument"]
          ELSE /\ lastOp' = [op |-> "handleOpenCombinedArgumentWorkbench",
                             rejected |-> region]
               /\ UNCHANGED <<logicalWorkbench, pending, formalizationResult>>
    /\ UNCHANGED <<storage, phase, session, clock, linkVars, linkContextMenu>>

\* the workbench's confirm button (index.tsx line 267)
CreateLogicalConstruct ==
    /\ MapShown /\ clock < MaxClock /\ DiaryRoom(session)
    /\ \E w \in logicalWorkbench, result \in formalizationResult :
          /\ Has(w, "combinedArgument")
          /\ Commit(handleCreateLogicalConstruct(session, w.combinedArgument,
                                                 result, 1, clock),
                    [op |-> "handleCreateLogicalConstruct"])
    /\ clock' = clock + 1
    /\ SelectionsCleared
    /\ UNCHANGED phase

\* useMapAI.ts lines 611-656: what the response to a formalization request
\* does to the session; ok = the request resolved and its text was parsed
FormalizationResponse(s, r, ok, t) ==
    IF ok
    THEN LET logged == logActivity(s, "FORMALIZE_ARGUMENT", t)
         IN  IF r.link = {} THEN logged
             ELSE LET l == CHOOSE l \in r.link : TRUE
                  IN  setLayout(logged,
                          [kind |-> "patchLinks", source |-> l.source, target |-> l.target,
                           patch |-> [formalizationState |-> "success",
                                      formalRepresentation |-> "formal"]])
    ELSE IF r.link = {} THEN s
         ELSE LET l == CHOOSE l \in r.link : TRUE
              IN  setLayout(s,
                      [kind |-> "patchLinks", source |-> l.source, target |-> l.target,
                       patch |-> [formalizationState |-> "error"]])

\* what a formalization request's prompt describes (useMapAI.ts lines
\* 547-575)
RequestSubject(r) ==
    IF Has(r, "argument") THEN r.argument ELSE CHOOSE l \in r.link : TRUE

FormalizationCompletes ==
    /\ Running
    /\ \E r \in pending :
          /\ r.kind = "formalization"
          /\ Has(r, "argument") \/ LatestRequest(r)
          /\ pending' = pending \ {r}
          /\ \/ /\ clock < MaxClock /\ DiaryRoom(session)
                /\ Commit(FormalizationResponse(session, r, TRUE, clock),
                          [op |-> "formalizationResolved", link |-> r.link])
                /\ formalizationResult' =
                      { FormalizationResultFor(RequestSubject(r)) }
                /\ clock' = clock + 1
             \/ /\ Commit(FormalizationResponse(session, r, FALSE, clock),
                          [op |-> "formalizationRejected", link |-> r.link])
                /\ UNCHANGED <<formalizationResult, clock>>
    /\ UNCHANGED <<phase, linkVars, logicalWorkbench, linkContextMenu>>

\* a stored map: A supports B, B causes C, and the argument from A to B
\* has been recorded as a logical construct
StoredConstruct ==
    [ id |-> ConstructId(0), premiseNodeIds |-> <<1>>, conclusionNodeId |-> 2,
      operator |-> "AND" ]

OneMap ==
    [ version |-> MULTI_PROJECT_SESSION_VERSION,
      activeProjectId |-> {1},
      projects |->
          << [ id |-> 1, name |-> "Alpha",
               data |-> [EmptyData EXCEPT !.mapLayout =
                   [ nodes |-> <<NodeA, NodeB, NodeC>>,
                     links |-> << NewMapLink(1, 2, <<"Supportive">>),
                                  NewMapLink(2, 3, <<"Causal">>) >>,
                     logicalConstructs |-> <<StoredConstruct>> ]] ] >>,
      customRelationshipTypes |-> <<>>,
      disabledDefaultTypes |-> <<>>,
      disabledCustomTypes |-> <<>> ]

MapStorages == { [AllAbsent EXCEPT !.multiProjectSession = Json(OneMap)] }

InitMap ==
    /\ storage \in MapStorages
    /\ phase = "boot"
    /\ session = NoSession
    /\ clock = 3
    /\ lastOp = [op |-> "init"]
    /\ HooksIdle

NextMap ==
    \/ Load
    \/ DeleteNode
    \/ DeleteLink
    \/ ReplaceNodeIdentity
    \/ CreateUserNode
    \/ DropNode

SpecMap == InitMap /\ [][NextMap]_vars

NextConstructs ==
    \/ Load
    \/ OpenCombinedArgumentWorkbench
    \/ FormalizationCompletes
    \/ CreateLogicalConstruct
    \/ DeleteNode
    \/ ReplaceNodeIdentity
    \/ ClearSelections

SpecConstructs == InitMap /\ [][NextConstructs]_vars

-----------------------------------------------------------------------------
(* The argument map: link enrichment and AI insertions (useMapAI.ts)       *)

\* a request remembers the link it was made for by the link's two ends
LinkKey(link) == [source |-> link.source, target |-> link.target]
EndsInNodeMap(s, link) == InNodeMap(s, link.source) /\ InNodeMap(s, link.target)
PatchLink(s, link, patch) ==
    setLayout(s, [kind |-> "patchLinks", source |-> link.source,
                  target |-> link.target, patch |-> patch])
InFlight(kind) == { r \in pending : r.kind = kind }
\* the requests for fields of links awaited together are kept to MaxInFlight
RoomFor(kind, link) ==
    Cardinality({ r \in pending : r.link # {} }) < MaxInFlight

\* useMapAI.ts lines 28-33: generateJustification up to its request
generateJustification(s, link) ==
    IF EndsInNodeMap(s, link)
    THEN PatchLink(s, link, [justificationState |-> "loading"])
    ELSE s

JustificationAwaited(s, link) ==
    \E l \in ShownLinks(s) :
        /\ LinkKey(l) = LinkKey(link)
        /\ Has(l, "justificationState")
        /\ l.justificationState = "loading"

\* useMapAI.ts lines 50-108: what the response does; ok = the request
\* resolved and its text was parsed
Justification == [text |-> "justification", citations |-> <<>>]
ErrorJustification == [text |-> "Failed to generate justification.", citations |-> <<>>]
\* a variant that merges the response only into a link still awaiting it
JustificationResponseIfLoading(s, link, ok, t) ==
    IF JustificationAwaited(s, link)
    THEN IF ok
         THEN PatchLink(logActivity(s, "GENERATE_JUSTIFICATION", t), link,
                        [justificationState |-> "success", justification |-> Justification])
         ELSE PatchLink(s, link,
                        [justificationState |-> "error",
                         justification |-> ErrorJustification])
    ELSE s
JustificationResponse(s, link, ok, t) ==
    IF ok
    THEN PatchLink(logActivity(s, "GENERATE_JUSTIFICATION", t), link,
                   [justificationState |-> "success", justification |-> Justification])
    ELSE PatchLink(s, link,
                   [justificationState |-> "error", justification |-> ErrorJustification])

\* useMapAI.ts lines 220-228: handleExploreImplications up to its request;
\* the test of implicationsState reads the link object the caller passed
ImplicationsLoading(link) ==
    Has(link, "implicationsState") /\ link.implicationsState = "loading"
handleExploreImplications(s, link) ==
    IF EndsInNodeMap(s, link) /\ ~ImplicationsLoading(link)
    THEN PatchLink(s, link, [implicationsState |-> "loading"])
    ELSE s

\* useMapAI.ts lines 238-277: outcome "questions" = a non-empty array came
\* back, "none" = the response held no questions, "rejected" = the request
\* failed (nothing is logged then)
Questions == <<"question">>
ErrorImplications == <<"The AI could not generate implications for this link.">>
ImplicationsOutcomes == {"questions", "none", "rejected"}
\* a variant whose error branch also puts the justification back to idle
ImplicationsResponseClearing(s, link, outcome, t) ==
    LET logged == IF outcome = "rejected" THEN s
                  ELSE logActivity(s, "EXPLORE_IMPLICATIONS", t)
    IN  IF outcome = "questions"
        THEN PatchLink(logged, link,
                       [implicationsState |-> "success", implications |-> Questions])
        ELSE PatchLink(logged, link,
                       [implicationsState |-> "error", implications |-> ErrorImplications,
                        justificationState |-> "idle"])
ImplicationsResponse(s, link, outcome, t) ==
    LET logged == IF outcome = "rejected" THEN s
                  ELSE logActivity(s, "EXPLORE_IMPLICATIONS", t)
    IN  IF outcome = "questions"
        THEN PatchLink(logged, link,
                       [implicationsState |-> "success", implications |-> Questions])
        ELSE PatchLink(logged, link,
                       [implicationsState |-> "error", implications |-> ErrorImplications])

\* useMapAI.ts lines 547-563: handleFormalizeArgument on a link, up to its
\* request
handleFormalizeArgument(s, link) ==
    IF EndsInNodeMap(s, link)
    THEN PatchLink(s, link, [formalizationState |-> "loading"])
    ELSE s

\* the text an AI-made node keeps about its origin (useMapAI.ts lines 182,
\* 360, 498, 519, 740)
SynthesisInfo == [synthesis |-> "synthesis", reasoning |-> "reasoning"]

\* useMapAI.ts lines 477-534; type is "counter", "proponent" or "opponent"
DialecticTypes == {"counter", "proponent", "opponent"}
handleAddDialecticNode(s, type, dialecticAnalysisLink, t) ==
    IF ~EndsInNodeMap(s, dialecticAnalysisLink) THEN s
    ELSE setLayout(s, [kind |-> "insert",
            nodes |-> << [ id |-> DialecticId(t), name |-> "dialectic",
                           isDialectic |-> TRUE,
                           synthesisInfo |-> SynthesisInfo ] >>,
            links |-> << [ source |-> DialecticId(t),
                           target |-> IF type = "proponent"
                                      THEN dialecticAnalysisLink.source
                                      ELSE dialecticAnalysisLink.target,
                           pathStyle |-> "curved",
                           relationshipTypes |->
                               IF type = "proponent" THEN <<"Supportive">>
                               ELSE <<"Oppositional">> ] >>])

\* useMapAI.ts lines 725-759, definitionAnalysisState.link = link
handleAddCounterExampleNode(s, link, t) ==
    IF ~InNodeMap(s, link.target) THEN s
    ELSE setLayout(s, [kind |-> "insert",
            nodes |-> << [ id |-> CounterId(t), name |-> "counter-example",
                           isCounterExample |-> TRUE,
                           synthesisInfo |-> SynthesisInfo ] >>,
            links |-> << [ source |-> CounterId(t), target |-> link.target,
                           pathStyle |-> "curved",
                           relationshipTypes |-> <<"Refutes">>,
                           isCounterExampleLink |-> TRUE ] >>])

\* Genealogy (useMapAI.ts lines 281-386).  The figures a response can name;
\* a name's white space becomes "_" in the node id (line 347), so that
\* "I Kant" and "I_Kant" give one id
FigureNames == {"Plato", "I Kant", "I_Kant"}
NameKey(name) == CASE name = "Plato" -> 1
                   [] name = "I Kant" -> 2
                   [] name = "I_Kant" -> 2
HistId(nodeId, name) == 1000 + 10 * nodeId + NameKey(name)

\* the responses tried: two figures, the same figure as precursor and as
\* successor, and two spellings of one figure
GenealogyResponses ==
    { [precursors |-> <<"Plato">>, successors |-> <<"I Kant">>],
      [precursors |-> <<"Plato">>, successors |-> <<"Plato">>],
      [precursors |-> <<"I Kant">>, successors |-> <<"I_Kant">>] }

\* lines 339-371: the entries kept are those whose id was not a node when
\* the request was made (r.known); entries are not compared with each other
GenealogyKept(r, response) ==
    LET all == response.precursors \o response.successors
    IN  SelectSeq([k \in 1..Len(all) |-> k],
                  LAMBDA k : HistId(r.nodeId, all[k]) \notin r.known)
GenealogyNodes(r, response) ==
    LET all == response.precursors \o response.successors
        kept == GenealogyKept(r, response)
    IN  [j \in 1..Len(kept) |->
            [ id |-> HistId(r.nodeId, all[kept[j]]), name |-> all[kept[j]],
              isHistorical |-> TRUE, synthesisInfo |-> SynthesisInfo ]]
GenealogyLinks(r, response) ==
    LET all == response.precursors \o response.successors
        kept == GenealogyKept(r, response)
    IN  [j \in 1..Len(kept) |->
            LET isPrecursor == kept[j] <= Len(response.precursors)
                newId == HistId(r.nodeId, all[kept[j]])
            IN  [ source |-> IF isPrecursor THEN newId ELSE r.nodeId,
                  target |-> IF isPrecursor THEN r.nodeId ELSE newId,
                  pathStyle |-> "curved",
                  relationshipTypes |-> <<"Contextual">>,
                  isHistorical |-> TRUE ]]

\* responses that cannot be used: a text that does not parse (line 336
\* throws) and an object without its successors (line 341 throws)
MalformedGenealogyResponses ==
    { [text |-> "unparsable"], [precursors |-> <<"Plato">>] }
GenealogyParsed(response) ==
    Has(response, "precursors") /\ Has(response, "successors")

\* a variant that inserts the precursors of a response without successors
GenealogyResponseOfPrecursors(s, r, response, t) ==
    LET logged == logActivity(s, "ANALYZE_GENEALOGY", t)
        read == IF Has(response, "successors") THEN response
                ELSE With(response, "successors", <<>>)
    IN  IF Has(response, "precursors")
        THEN setLayout(logged,
                       [kind |-> "insert", nodes |-> GenealogyNodes(r, read),
                        links |-> GenealogyLinks(r, read)])
        ELSE logged
\* lines 325-375: the response is logged, then parsed and its nodes
\* inserted; the error thrown on a response that cannot be used is caught
\* (lines 379-382) before anything is inserted
GenealogyResponse(s, r, response, t) ==
    LET logged == logActivity(s, "ANALYZE_GENEALOGY", t)
    IN  IF GenealogyParsed(response)
        THEN setLayout(logged,
                       [kind |-> "insert", nodes |-> GenealogyNodes(r, response),
                        links |-> GenealogyLinks(r, response)])
        ELSE logged

\* Region synthesis (useMapAI.ts lines 112-218); r.selectedNodes are the ids
\* of the nodes selected when the request was made
SynthesisLinks(r, newId) ==
    [k \in 1..Len(r.selectedNodes) |->
        [ source |-> newId, target |-> r.selectedNodes[k],
          pathStyle |-> "curved", relationshipTypes |-> <<"Synthesizes">> ]]
SynthesisResponse(s, r, t) ==
    setLayout(logActivity(s, "SYNTHESIZE_REGION", t),
              [kind |-> "insert",
               nodes |-> << [ id |-> SynthId(t), name |-> "synthesis",
                              isAiGenerated |-> TRUE,
                              synthesisInfo |-> SynthesisInfo ] >>,
               links |-> SynthesisLinks(r, SynthId(t))])

\* the menu's copy of the link, kept to the fields its entries read: the
\* two ends, pathStyle (index.tsx line 540) and implicationsState
\* (useMapAI.ts line 223)
MenuFields == {"source", "target", "pathStyle", "implicationsState"}
MenuLink(l) == [k \in (DOMAIN l) \cap MenuFields |-> l[k]]

\* useMapUI.ts lines 272-277: the link's context menu opens on the link as
\* it is now
OpenLinkContextMenu ==
    /\ MapShown
    /\ \E l \in ShownLinks(session) :
          linkContextMenu' = {MenuLink(l)}
    /\ linkingNode' = {}
    /\ relationshipMenu' = {}
    /\ logicalWorkbench' = {}
    /\ lastOp' = [op |-> "handleLinkContextMenu"]
    /\ UNCHANGED <<storage, phase, session, clock, aiVars>>

\* index.tsx line 535: the menu's entry calls generateJustification with
\* the menu's link and closes the menu
GenerateJustification ==
    /\ MapShown
    /\ \E l \in linkContextMenu :
          /\ RoomFor("justification", {LinkKey(l)})
          /\ Commit(generateJustification(session, l),
                    [op |-> "generateJustification", link |-> LinkKey(l)])
          /\ pending' = IF EndsInNodeMap(session, l)
                        THEN pending \cup {NewRequest("justification", {LinkKey(l)})}
                        ELSE pending
    /\ linkContextMenu' = {}
    /\ UNCHANGED <<phase, clock, linkVars, logicalWorkbench, formalizationResult>>

\* history: the justificationState the response found on the link with the
\* request's ends ("absent" when the map shows no such link)
JustificationStateAt(s, key) ==
    IF activeProject(s) = {} THEN "absent"
    ELSE IF \A l \in ShownLinks(s) : LinkKey(l) # key THEN "absent"
    ELSE LET l == CHOOSE l \in ShownLinks(s) : LinkKey(l) = key
         IN  IF Has(l, "justificationState") THEN l.justificationState ELSE "idle"

JustificationCompletes ==
    /\ Running
    /\ \E r \in pending :
          /\ r.kind = "justification" /\ LatestRequest(r)
          /\ pending' = pending \ {r}
          /\ \E l \in r.link :
                \/ /\ clock < MaxClock /\ DiaryRoom(session)
                   /\ Commit(JustificationResponse(session, l, TRUE, clock),
                             [op |-> "justificationResolved", link |-> l,
                              was |-> JustificationStateAt(session, l)])
                   /\ clock' = clock + 1
                \/ /\ Commit(JustificationResponse(session, l, FALSE, clock),
                             [op |-> "justificationRejected", link |-> l,
                              was |-> JustificationStateAt(session, l)])
                   /\ UNCHANGED clock
    /\ UNCHANGED <<phase, linkVars, logicalWorkbench, linkContextMenu,
                   formalizationResult>>

\* index.tsx line 532: the menu's entry calls handleExploreImplications with
\* the menu's link; the menu stays open
ExploreImplications ==
    /\ MapShown
    /\ \E l \in linkContextMenu :
          /\ RoomFor("implications", {LinkKey(l)})
          /\ Commit(handleExploreImplications(session, l),
                    [op |-> "handleExploreImplications", link |-> LinkKey(l)])
          /\ pending' = IF EndsInNodeMap(session, l) /\ ~ImplicationsLoading(l)
                        THEN pending \cup {NewRequest("implications", {LinkKey(l)})}
                        ELSE pending
    /\ UNCHANGED <<phase, clock, linkVars, logicalWorkbench, linkContextMenu,
                   formalizationResult>>

ImplicationsCompletes ==
    /\ Running
    /\ \E r \in pending, outcome \in ImplicationsOutcomes :
          /\ r.kind = "implications" /\ LatestRequest(r)
          /\ pending' = pending \ {r}
          /\ \E l \in r.link :
                IF outcome = "rejected"
                THEN /\ Commit(ImplicationsResponse(session, l, outcome, clock),
                               [op |-> "implicationsRejected", link |-> l])
                     /\ UNCHANGED clock
                ELSE /\ clock < MaxClock /\ DiaryRoom(session)
                     /\ Commit(ImplicationsResponse(session, l, outcome, clock),
                               [op |-> "implicationsResolved", link |-> l,
                                outcome |-> outcome])
                     /\ clock' = clock + 1
    /\ UNCHANGED <<phase, linkVars, logicalWorkbench, linkContextMenu,
                   formalizationResult>>

\* index.tsx line 526: the menu's entry opens the workbench on the menu's
\* link, calls handleFormalizeArgument and closes the menu
FormalizeLink ==
    /\ MapShown
    /\ \E l \in linkContextMenu :
          /\ RoomFor("formalization", {LinkKey(l)})
          /\ Commit(handleFormalizeArgument(session, l),
                    [op |-> "handleFormalizeArgument", link |-> LinkKey(l)])
          /\ pending' = IF EndsInNodeMap(session, l)
                        THEN pending \cup {NewRequest("formalization", {LinkKey(l)})}
                        ELSE pending
          /\ logicalWorkbench' = { [link |-> LinkKey(l)] }
    /\ formalizationResult' = {}
    /\ linkContextMenu' = {}
    /\ UNCHANGED <<phase, clock, linkVars>>

\* the dialectic panel of a link adds one of its items (index.tsx line 276)
AddDialecticNode ==
    /\ MapShown /\ clock < MaxClock
    /\ \E l \in ShownLinks(session), type \in DialecticTypes :
          Commit(handleAddDialecticNode(session, type, l, clock),
                 [op |-> "handleAddDialecticNode"])
    /\ clock' = clock + 1
    /\ UNCHANGED <<phase, uiVars>>

\* the definition panel of a link adds a counter-example (index.tsx line 284)
AddCounterExampleNode ==
    /\ MapShown /\ clock < MaxClock
    /\ \E l \in ShownLinks(session) :
          Commit(handleAddCounterExampleNode(session, l, clock),
                 [op |-> "handleAddCounterExampleNode"])
    /\ clock' = clock + 1
    /\ UNCHANGED <<phase, uiVars>>

\* the nodes whose genealogy is asked for and the regions synthesized, of
\* those the map holds
GenealogyInputs == {2, 5}
RegionInputs == { {1, 2}, {2, 5} }

\* the node's context menu opens (part_000 lines 291-297) and its genealogy
\* entry calls handleAnalyzeGenealogy (useMapAI.ts lines 281-292), which
\* returns at once while isAnalyzingGenealogy is set (line 283) and
\* otherwise keeps the node and the node ids of that moment
AnalyzeGenealogy ==
    /\ MapShown
    /\ \E n \in NodeIds(session) \cap GenealogyInputs :
          IF InFlight("genealogy") = {}
          THEN /\ pending' = pending \cup
                     { [kind |-> "genealogy", link |-> {}, n |-> 1, nodeId |-> n,
                        known |-> NodeIds(session)] }
               /\ lastOp' = [op |-> "handleAnalyzeGenealogy"]
          ELSE /\ pending' = pending
               /\ lastOp' = [op |-> "handleAnalyzeGenealogy", returned |-> n]
    /\ linkingNode' = {}
    /\ relationshipMenu' = {}
    /\ logicalWorkbench' = {}
    /\ linkContextMenu' = {}
    /\ UNCHANGED <<storage, phase, session, clock, formalizationResult>>

GenealogyCompletes ==
    /\ Running
    /\ \E r \in pending :
          /\ r.kind = "genealogy"
          /\ pending' = pending \ {r}
          /\ \/ /\ clock < MaxClock /\ DiaryRoom(session)
                /\ \E response \in GenealogyResponses :
                      Commit(GenealogyResponse(session, r, response, clock),
                             [op |-> "genealogyResolved", nodeId |-> r.nodeId,
                              response |-> response])
                /\ clock' = clock + 1
             \/ /\ clock < MaxClock /\ DiaryRoom(session)
                /\ \E response \in MalformedGenealogyResponses :
                      Commit(GenealogyResponse(session, r, response, clock),
                             [op |-> "genealogyMalformed", nodeId |-> r.nodeId])
                /\ clock' = clock + 1
             \/ /\ lastOp' = [op |-> "genealogyRejected", nodeId |-> r.nodeId]
                /\ UNCHANGED <<session, storage, clock>>
    /\ UNCHANGED <<phase, linkVars, logicalWorkbench, linkContextMenu,
                   formalizationResult>>

\* index.tsx line 458: the region's synthesis button; the call returns at
\* once while isSynthesizing is set (useMapAI.ts line 113); otherwise the
\* request keeps the selected nodes and the clearSelections of that moment
SynthesizeRegion ==
    /\ MapShown
    /\ \E region \in RegionInputs :
          /\ region \subseteq NodeIds(session)
          /\ Cardinality(region) >= 2
          /\ IF InFlight("synthesis") = {}
             THEN /\ pending' = pending \cup
                        { [kind |-> "synthesis", link |-> {}, n |-> 1,
                           selectedNodes |->
                               SelectSeq(IdsOf(ShownLayout(session).nodes),
                                         LAMBDA n : n \in region),
                           linking |-> linkingNode # {},
                           menu |-> relationshipMenu # {}] }
                  /\ lastOp' = [op |-> "handleSynthesizeRegion"]
             ELSE /\ pending' = pending
                  /\ lastOp' = [op |-> "handleSynthesizeRegion", returned |-> region]
    /\ UNCHANGED <<storage, phase, session, clock, linkVars, logicalWorkbench,
                   linkContextMenu, formalizationResult>>

\* useMapAI.ts lines 160-217: a coherent region gets its node and links and
\* the selections are cleared; an incoherent one only clears them; a
\* request that failed, a text that does not parse and a coherent verdict
\* without its fields (line 166) all end in the catch of lines 211-213 and
\* change nothing
SynthesisCompletes ==
    /\ Running
    /\ \E r \in pending :
          /\ r.kind = "synthesis"
          /\ pending' = pending \ {r}
          /\ \/ /\ clock < MaxClock /\ DiaryRoom(session)
                /\ Commit(SynthesisResponse(session, r, clock),
                          [op |-> "synthesisResolved", selectedNodes |-> r.selectedNodes])
                /\ clock' = clock + 1
                /\ linkingNode' = IF r.linking THEN {} ELSE linkingNode
                /\ relationshipMenu' = IF r.menu THEN {} ELSE relationshipMenu
                /\ logicalWorkbench' = {}
                /\ linkContextMenu' = {}
             \/ /\ lastOp' = [op |-> "synthesisIncoherent"]
                /\ linkingNode' = IF r.linking THEN {} ELSE linkingNode
                /\ relationshipMenu' = IF r.menu THEN {} ELSE relationshipMenu
                /\ logicalWorkbench' = {}
                /\ linkContextMenu' = {}
                /\ UNCHANGED <<session, storage, clock>>
             \/ /\ lastOp' = [op |-> "synthesisRejected"]
                /\ UNCHANGED <<session, storage, clock, linkVars, logicalWorkbench,
                               linkContextMenu>>
    /\ UNCHANGED <<phase, formalizationResult>>


\* every operation that writes a link, on the stored map
NextLinks ==
    \/ Load
    \/ StartLinking
    \/ HandleNodeClick
    \/ ChooseRelationship
    \/ UpdateLinkRelationshipTypes
    \/ PinCitation
    \/ AddDialecticNode
    \/ AddCounterExampleNode
    \/ AnalyzeGenealogy
    \/ GenealogyCompletes
    \/ SynthesizeRegion
    \/ SynthesisCompletes

\* the stored map with one tick of the clock left: a run holds one of the
\* insertions, with any number of retypings and requests around it
InitLinks ==
    /\ storage \in MapStorages
    /\ phase = "boot"
    /\ session = NoSession
    /\ clock = MaxClock - 1
    /\ lastOp = [op |-> "init"]
    /\ HooksIdle

SpecLinks == InitLinks /\ [][NextLinks]_vars

\* the enrichment of the stored map's links from the link context menu
NextEnrich ==
    \/ Load
    \/ OpenLinkContextMenu
    \/ GenerateJustification
    \/ JustificationCompletes
    \/ ExploreImplications
    \/ ImplicationsCompletes
    \/ FormalizeLink
    \/ FormalizationCompletes
    \/ DeleteLink

\* a stored map of one link, A supports B, none of its fields enriched yet
OneLinkMap ==
    [OneMap EXCEPT !.projects[1].data.mapLayout =
        [ nodes |-> <<NodeA, NodeB>>,
          links |-> << NewMapLink(1, 2, <<"Supportive">>) >>,
          logicalConstructs |-> <<>> ]]

EnrichStorages == { [AllAbsent EXCEPT !.multiProjectSession = Json(OneLinkMap)] }

InitEnrich ==
    /\ storage \in EnrichStorages
    /\ phase = "boot"
    /\ session = NoSession
    /\ clock = 3
    /\ lastOp = [op |-> "init"]
    /\ HooksIdle

SpecEnrich == InitEnrich /\ [][NextEnrich]_vars

\* the enrichment of two links interleaved with edits of the links' types
\* and path styles
NextMerge ==
    \/ Load
    \/ OpenLinkContextMenu
    \/ GenerateJustification
    \/ JustificationCompletes
    \/ UpdateLinkRelationshipTypes
    \/ UpdateLinkPathStyle
    \/ DeleteNode

SpecMerge == InitLinks /\ [][NextMerge]_vars

\* a link is deleted and drawn again while a justification of it is
\* awaited
NextRecreate ==
    \/ Load
    \/ OpenLinkContextMenu
    \/ GenerateJustification
    \/ JustificationCompletes
    \/ DeleteLink
    \/ StartLinking
    \/ HandleNodeClick
    \/ ChooseRelationship

SpecRecreate == InitEnrich /\ [][NextRecreate]_vars

\* the justification of a link is awaited while the link is retyped or
\* deleted or one of its ends changed to another concept; every request
\* sent is answered in the end (resolved or rejected), which is the
\* fairness of the response step
NextAwait ==
    \/ Load
    \/ OpenLinkContextMenu
    \/ GenerateJustification
    \/ JustificationCompletes
    \/ UpdateLinkRelationshipTypes
    \/ UpdateLinkPathStyle
    \/ DeleteLink
    \/ ReplaceNodeIdentity

SpecAwait == InitEnrich /\ [][NextAwait]_vars /\ WF_vars(JustificationCompletes)

\* the same without the change of concept
NextAwaitSameEnds ==
    \/ Load
    \/ OpenLinkContextMenu
    \/ GenerateJustification
    \/ JustificationCompletes
    \/ UpdateLinkRelationshipTypes
    \/ UpdateLinkPathStyle
    \/ DeleteLink

SpecAwaitSameEnds ==
    InitEnrich /\ [][NextAwaitSameEnds]_vars /\ WF_vars(JustificationCompletes)

\* two projects whose maps both hold the link A -> B; the justification is
\* asked for in one of them and the projects are switched or deleted while
\* it is awaited
TwoLinkedProjects ==
    [OneLinkMap EXCEPT !.projects =
        Append(@, [id |-> 2, name |-> "Beta", data |-> OneLinkMap.projects[1].data])]

InitIsolation ==
    /\ storage \in { [AllAbsent EXCEPT !.multiProjectSession = Json(TwoLinkedProjects)] }
    /\ phase = "boot"
    /\ session = NoSession
    /\ clock = 3
    /\ lastOp = [op |-> "init"]
    /\ HooksIdle

NextIsolation ==
    \/ Load
    \/ SwitchProject
    \/ DeleteProject
    \/ OpenLinkContextMenu
    \/ GenerateJustification
    \/ JustificationCompletes

SpecIsolation == InitIsolation /\ [][NextIsolation]_vars

\* nodes of every origin are added to a map (citations, user concepts,
\* dialectic voices, counter-examples, historical figures, syntheses) and
\* nodes are changed to other concepts
NextProvenance ==
    \/ Load
    \/ PinCitation
    \/ CreateUserNode
    \/ AddDialecticNode
    \/ AddCounterExampleNode
    \/ AnalyzeGenealogy
    \/ GenealogyCompletes
    \/ SynthesizeRegion
    \/ SynthesisCompletes
    \/ ReplaceNodeIdentity

SpecProvenance == InitMap /\ [][NextProvenance]_vars

\* the operations on the graph a user performs by hand, on a map of one
\* link: links drawn, retyped, restyled and deleted, nodes deleted, reshaped
\* and changed to other concepts, citations pinned, notes saved
NextJournal ==
    \/ Load
    \/ StartLinking
    \/ HandleNodeClick
    \/ ChooseRelationship
    \/ DeleteLink
    \/ DeleteNode
    \/ UpdateLinkRelationshipTypes
    \/ UpdateLinkPathStyle
    \/ OpenLinkContextMenu
    \/ UpdateNodeShape
    \/ ReplaceNodeIdentity
    \/ PinCitation
    \/ SaveNote

\* one entry of the diary, or one minted id, is left to each run
InitJournal ==
    /\ storage \in EnrichStorages
    /\ phase = "boot"
    /\ session = NoSession
    /\ clock = MaxClock - 1
    /\ lastOp = [op |-> "init"]
    /\ HooksIdle

SpecJournal == InitJournal /\ [][NextJournal]_vars

\* the page is reloaded while fields of a link are awaited: the requests
\* are gone with the page, what was stored stays
NextReload ==
    \/ Load
    \/ Reload
    \/ OpenLinkContextMenu
    \/ GenerateJustification
    \/ JustificationCompletes
    \/ ExploreImplications
    \/ ImplicationsCompletes

SpecReload == InitEnrich /\ [][NextReload]_vars

\* genealogies and syntheses asked for on a map of three concepts while
\* others are awaited
NodeE == [id |-> 5, name |-> "E"]
ThreeConceptMap ==
    [OneMap EXCEPT !.projects[1].data.mapLayout =
        [ nodes |-> <<NodeA, NodeB, NodeE>>,
          links |-> << NewMapLink(1, 2, <<"Supportive">>) >>,
          logicalConstructs |-> <<>> ]]

NextBusy ==
    \/ Load
    \/ AnalyzeGenealogy
    \/ GenealogyCompletes
    \/ SynthesizeRegion
    \/ SynthesisCompletes

InitBusy ==
    /\ storage \in { [AllAbsent EXCEPT !.multiProjectSession = Json(ThreeConceptMap)] }
    /\ phase = "boot"
    /\ session = NoSession
    /\ clock = 3
    /\ lastOp = [op |-> "init"]
    /\ HooksIdle

SpecBusy == InitBusy /\ [][NextBusy]_vars

\* justifications and implications of two links awaited together
NextCommute ==
    \/ Load
    \/ OpenLinkContextMenu
    \/ GenerateJustification
    \/ JustificationCompletes
    \/ ExploreImplications
    \/ ImplicationsCompletes

SpecCommute == InitLinks /\ [][NextCommute]_vars

\* user edits of the nodes interleaved with the insertions made by AI
\* responses
NextAsync ==
    \/ Load
    \/ AnalyzeGenealogy
    \/ GenealogyCompletes
    \/ SynthesizeRegion
    \/ SynthesisCompletes
    \/ AddDialecticNode
    \/ AddCounterExampleNode
    \/ PinCitation
    \/ CreateUserNode
    \/ DropNode
    \/ DeleteNode
    \/ ReplaceNodeIdentity

SpecAsync == InitLinks /\ [][NextAsync]_vars

-----------------------------------------------------------------------------
(* Properties of the project store, stated for SpecSession                 *)

\* C3: in every reachable session state activeProjectId is null or the id
\* of a member of projects.
C3_ActiveProjectIsMember ==
    Running => \/ session.activeProjectId = {}
               \/ \E id \in ProjectIds(session) : session.activeProjectId = {id}

\* C4: deleteProject never leaves the session without a project: deleting
\* the only project yields exactly one new, empty, default-named project,
\* which is active; deleting the active project while others remain
\* activates the first remaining one; deleting a non-active project (others
\* remaining) leaves activeProjectId unchanged.
C4_DeleteProject ==
    [][lastOp'.op = "deleteProject" =>
        LET id == lastOp'.id
            others == SelectSeq(session.projects, LAMBDA p : p.id # id)
        IN  /\ Len(session'.projects) >= 1
            /\ Len(others) = 0 =>
                 /\ Len(session'.projects) = 1
                 /\ session'.projects[1].name = DefaultProjectName
                 /\ session'.projects[1].data = EmptyData
                 /\ session'.projects[1].id \notin ProjectIds(session)
                 /\ session'.activeProjectId = {session'.projects[1].id}
            /\ Len(others) > 0 =>
                 /\ session'.projects = others
                 /\ session'.activeProjectId =
                       IF session.activeProjectId = {id} THEN {others[1].id}
                       ELSE session.activeProjectId
    ]_vars

\* C4 witness: the only project of a session has been deleted and a default
\* project stands in its place.
C4_Witness ==
    /\ Running /\ lastOp.op = "deleteProject" /\ lastOp.emptied
    /\ lastOp.id # 0
    /\ Len(session.projects) = 1

\* C5: switchProject(id) sets activeProjectId to id only if id is the id of
\* an existing project; for any other id the session is left unchanged.
C5_SwitchOnlyToExisting ==
    [][lastOp'.op = "switchProject" =>
        IF lastOp'.id \in ProjectIds(session)
        THEN session' = With(session, "activeProjectId", {lastOp'.id})
        ELSE session' = session
    ]_vars

\* C6: updateActiveProjectData(fn) applies fn to the data of the active
\* project only: every other project's data, the order of the projects,
\* their ids and names, activeProjectId and the session-level settings are
\* unchanged; with no active project the session is unchanged.
C6_UpdateOnlyActive ==
    [][lastOp'.op = "updateActiveProjectData" =>
        /\ Without(session', "projects") = Without(session, "projects")
        /\ Len(session'.projects) = Len(session.projects)
        /\ \A i \in 1..Len(session.projects) :
              LET p == session.projects[i]
                  q == session'.projects[i]
              IN  /\ Without(q, "data") = Without(p, "data")
                  /\ q.data = IF session.activeProjectId = {p.id}
                              THEN ApplyUpdater(lastOp'.updater, p.data)
                              ELSE p.data
        /\ session.activeProjectId = {} => session' = session
    ]_vars

\* C6 witness: with two projects, a concept was added to the tray of the
\* active project while the other project's tray stayed empty.
C6_Witness ==
    /\ Running /\ lastOp.op = "updateActiveProjectData"
    /\ lastOp.updater.kind = "addToTray"
    /\ \E i, k \in 1..Len(session.projects) :
          /\ session.activeProjectId = {session.projects[i].id}
          /\ session.projects[i].data.mapTrayConceptIds = <<1>>
          /\ session.projects[k].data.mapTrayConceptIds = <<>>

-----------------------------------------------------------------------------
(* Properties of load and migration, stated for SpecLoad                   *)

Loaded == phase = "running" /\ lastOp.op = "load"
LoadedBlob == lastOp.before.multiProjectSession
AllLinks(s) ==
    IF ~Has(s, "projects") THEN {}
    ELSE UNION { IF /\ Has(s.projects[i], "data")
                    /\ Has(s.projects[i].data, "mapLayout")
                    /\ Has(s.projects[i].data.mapLayout, "links")
                 THEN { <<i, j>> : j \in 1..Len(s.projects[i].data.mapLayout.links) }
                 ELSE {} : i \in 1..Len(s.projects) }
LinkAt(s, ij) == s.projects[ij[1]].data.mapLayout.links[ij[2]]

\* C1: load never fails: whatever the five storage keys hold, the
\* initialiser returns a session and raises no error (the hook never ends
\* up without a session because loadInitialSession threw).
C1_LoadNeverFails == phase # "crashed"

\* C2: after any load the session's projects list is non-empty (a stored
\* session with an empty projects list is repaired with a default project).
C2_ProjectsNonEmptyAfterLoad == Loaded => Len(session.projects) >= 1

\* C7: the migration step is idempotent: on a stored session whose version
\* is V it returns the session unchanged, and applied to its own output it
\* changes nothing further.
C7_MigrationIdempotent ==
    (lastOp.op = "load" /\ Has(lastOp, "migrated")) =>
        /\ (Has(LoadedBlob.val, "version")
              /\ LoadedBlob.val.version = MULTI_PROJECT_SESSION_VERSION)
             => lastOp.migrated = LoadedBlob.val
        /\ MigrationStep(lastOp.migrated) = lastOp.migrated

\* C7 witness: a session stored at version V that still holds a link in the
\* legacy shape went through the migration step.
C7_Witness ==
    /\ lastOp.op = "load" /\ Has(lastOp, "migrated")
    /\ Has(LoadedBlob.val, "version")
    /\ LoadedBlob.val.version = MULTI_PROJECT_SESSION_VERSION
    /\ \E ij \in AllLinks(LoadedBlob.val) : LinkAt(LoadedBlob.val, ij) = OldLink

C9_LegacyImportOfNothing ==
    (Loaded /\ lastOp.before = AllAbsent) =>
        /\ session.version = MULTI_PROJECT_SESSION_VERSION
        /\ Len(session.projects) = 1
        /\ session.projects[1].name = DefaultProjectName
        /\ session.activeProjectId = {session.projects[1].id}
        /\ session.projects[1].data = EmptyData

\* C9 witness: the program was started on an empty localStorage.
C9_Witness == Loaded /\ lastOp.before = AllAbsent /\ lastOp.path = "legacy"

-----------------------------------------------------------------------------
(* Properties of the argument map, stated for SpecGraph                    *)

\* C10: between any two nodes of a project's graph there is at most one
\* link, in either direction; a createLink for a pair that is already
\* linked (in either direction) adds nothing.
C10_LinkUniqueness ==
    Running =>
        \A p \in 1..Len(session.projects) :
            LET links == session.projects[p].data.mapLayout.links
            IN  \A i, j \in 1..Len(links) :
                    i < j => {links[i].source, links[i].target}
                                 # {links[j].source, links[j].target}

-----------------------------------------------------------------------------
(* Properties of the structural edits, stated for SpecMap                  *)

References(c, n) == c.conclusionNodeId = n \/ Includes(c.premiseNodeIds, n)

\* C11: deleteNode(n) is one step after which no node has id n, no link has
\* n as its source or target and no logical construct has n among its
\* premises or as its conclusion, while the nodes, links and constructs
\* that do not reference n are all kept, unchanged and in their order.
C11_CascadeCompleteness ==
    [][lastOp'.op = "deleteNode" =>
        LET n == lastOp'.id
            before == ShownLayout(session)
            after == ShownLayout(session')
        IN  /\ \A k \in 1..Len(after.nodes) : after.nodes[k].id # n
            /\ \A k \in 1..Len(after.links) :
                  after.links[k].source # n /\ after.links[k].target # n
            /\ \A k \in 1..Len(after.logicalConstructs) :
                  ~References(after.logicalConstructs[k], n)
            /\ after.nodes = SelectSeq(before.nodes, LAMBDA x : x.id # n)
            /\ after.links =
                  SelectSeq(before.links, LAMBDA l : l.source # n /\ l.target # n)
            /\ after.logicalConstructs =
                  SelectSeq(before.logicalConstructs, LAMBDA c : ~References(c, n))
    ]_vars

\* C11 witness: node A of the stored map (source of a link, premise of the
\* stored construct) has been deleted; B, C and the link between them stay.
C11_Witness ==
    /\ Running /\ lastOp.op = "deleteNode" /\ lastOp.id = 1
    /\ ShownLayout(session).nodes = <<NodeB, NodeC>>
    /\ ShownLayout(session).links = <<NewMapLink(2, 3, <<"Causal">>)>>
    /\ ShownLayout(session).logicalConstructs = <<>>

-----------------------------------------------------------------------------
(* Properties of the links, stated for SpecLinks                           *)

\* C12: after every step every link of every project has a non-empty
\* relationshipTypes; a link created with the empty list and every link
\* retyped with the empty list carries <<"Unclassified">>
C12_RelationshipTypesNonEmpty ==
    [][ Running' =>
          /\ \A ij \in AllLinks(session') :
                /\ Has(LinkAt(session', ij), "relationshipTypes")
                /\ Len(LinkAt(session', ij).relationshipTypes) > 0
          /\ (lastOp'.op = "createLink" /\ lastOp'.types = <<>>)
                => LET ls == ShownLayout(session').links
                   IN  /\ Len(ls) = Len(ShownLayout(session).links) + 1
                       /\ ls[Len(ls)].source = lastOp'.source
                       /\ ls[Len(ls)].target = lastOp'.target
                       /\ ls[Len(ls)].relationshipTypes = <<"Unclassified">>
          /\ (lastOp'.op = "updateLinkRelationshipTypes" /\ lastOp'.types = <<>>)
                => LET before == ShownLayout(session).links
                       after == ShownLayout(session').links
                   IN  /\ Len(after) = Len(before)
                       /\ \E i \in 1..Len(after) : after[i] # before[i]
                              \/ before[i].relationshipTypes = <<"Unclassified">>
                       /\ \A i \in 1..Len(after) :
                              after[i] # before[i]
                                 => after[i].relationshipTypes = <<"Unclassified">>
      ]_vars

C12_Witness ==
    /\ Running
    /\ lastOp.op = "updateLinkRelationshipTypes"
    /\ lastOp.types = <<>>
    /\ \E l \in ShownLinks(session) : l.relationshipTypes = <<"Unclassified">>
    /\ \E l \in ShownLinks(session) : l.relationshipTypes = <<"Synthesizes">>

-----------------------------------------------------------------------------
(* Properties of link enrichment, stated for SpecEnrich                    *)

LinkPresentIn(s, key) == \E l \in ShownLinks(s) : LinkKey(l) = key
EnrichmentFields == {"justification", "implications", "formalization"}
StateField(field) == CASE field = "justification" -> "justificationState"
                       [] field = "implications" -> "implicationsState"
                       [] field = "formalization" -> "formalizationState"

\* C13: no two requests for the same field of the same link await their
\* response at the same time
C13_AtMostOneInFlight ==
    \A r1 \in pending, r2 \in pending :
        ( /\ r1.kind \in EnrichmentFields
          /\ r1.kind = r2.kind
          /\ r1.link # {}
          /\ r1.link = r2.link ) => r1 = r2

\* the state of a field of the link with the given ends; "idle" when the
\* link has no such field, "absent" when there is no such link
FieldState(s, key, field) ==
    IF ~LinkPresentIn(s, key) THEN "absent"
    ELSE LET l == CHOOSE l \in ShownLinks(s) : LinkKey(l) = key
         IN  IF Has(l, StateField(field)) THEN l[StateField(field)] ELSE "idle"
LinkKeys(s) == { LinkKey(l) : l \in ShownLinks(s) }

\* C19: a field of a link becomes success or error only in a step taken
\* with the field at loading
C19_TerminalOnlyFromLoading ==
    [][ (MapShown /\ MapShown') =>
          \A key \in LinkKeys(session) \cap LinkKeys(session'),
             field \in EnrichmentFields :
              ( /\ FieldState(session', key, field) \in {"success", "error"}
                /\ FieldState(session', key, field) # FieldState(session, key, field) )
                 => FieldState(session, key, field) = "loading"
      ]_vars

PayloadField(field) == CASE field = "justification" -> "justification"
                         [] field = "implications" -> "implications"
                         [] field = "formalization" -> "formalRepresentation"

\* C20: a link whose field is at success or error holds the field's payload;
\* for the justification and the implications the payload of an error is
\* the fallback
C20_TerminalStateHasPayload ==
    MapShown =>
        \A l \in ShownLinks(session), field \in EnrichmentFields :
            ( /\ Has(l, StateField(field))
              /\ l[StateField(field)] \in {"success", "error"} )
               => /\ Has(l, PayloadField(field))
                  /\ (field = "justification" /\ l.justificationState = "error")
                        => l.justification = ErrorJustification
                  /\ (field = "implications" /\ l.implicationsState = "error")
                        => l.implications = ErrorImplications

-----------------------------------------------------------------------------
(* Properties of the logical constructs, stated for SpecConstructs         *)

\* C17: in every map every premise and the conclusion of every logical
\* construct are ids of nodes of that map
C17_ConstructReferentialIntegrity ==
    Running =>
        \A i \in 1..Len(session.projects) :
            LET cs == Constructs(session.projects[i].data.mapLayout)
                ids == { session.projects[i].data.mapLayout.nodes[k].id :
                           k \in 1..Len(session.projects[i].data.mapLayout.nodes) }
            IN  \A k \in 1..Len(cs) :
                   /\ cs[k].conclusionNodeId \in ids
                   /\ \A j \in 1..Len(cs[k].premiseNodeIds) :
                          cs[k].premiseNodeIds[j] \in ids

-----------------------------------------------------------------------------
(* Properties of the AI responses, stated for SpecAsync                    *)

LinkFieldResponses ==
    { "justificationResolved", "justificationRejected",
      "implicationsResolved", "implicationsRejected" }
FormalizationResponses == {"formalizationResolved", "formalizationRejected"}

\* C14: a response that arrives after its target was deleted leaves the map
\* as it is: a link-field response whose link is gone, a genealogy whose
\* node is gone, a synthesis all of whose selected nodes are gone
C14_StaleCompletionSafety ==
    [][ (MapShown /\ MapShown') =>
          /\ ( /\ lastOp'.op \in LinkFieldResponses
               /\ ~LinkPresentIn(session, lastOp'.link) )
                => ShownLayout(session') = ShownLayout(session)
          /\ ( /\ lastOp'.op \in FormalizationResponses
               /\ \E k \in lastOp'.link : ~LinkPresentIn(session, k) )
                => ShownLayout(session') = ShownLayout(session)
          /\ ( /\ lastOp'.op = "genealogyResolved"
               /\ ~InNodeMap(session, lastOp'.nodeId) )
                => ShownLayout(session') = ShownLayout(session)
          /\ ( /\ lastOp'.op = "synthesisResolved"
               /\ \A k \in 1..Len(lastOp'.selectedNodes) :
                     ~InNodeMap(session, lastOp'.selectedNodes[k]) )
                => ShownLayout(session') = ShownLayout(session)
      ]_vars

\* the node ids of project p's map
NodeIdsOf(p) ==
    { p.data.mapLayout.nodes[k].id : k \in 1..Len(p.data.mapLayout.nodes) }

\* C16: in every map every link's source and target are ids of nodes of
\* that map
C16_LinkReferentialIntegrity ==
    Running =>
        \A i \in 1..Len(session.projects) :
            LET ml == session.projects[i].data.mapLayout
            IN  \A k \in 1..Len(ml.links) :
                   /\ ml.links[k].source \in NodeIdsOf(session.projects[i])
                   /\ ml.links[k].target \in NodeIdsOf(session.projects[i])

\* C18: in every map no two nodes have the same id
C18_NodeIdsUnique ==
    Running =>
        \A i \in 1..Len(session.projects) :
            LET ns == session.projects[i].data.mapLayout.nodes
            IN  \A j \in 1..Len(ns), k \in 1..Len(ns) :
                   ns[j].id = ns[k].id => j = k

-----------------------------------------------------------------------------
(* Properties of the diary, stated for SpecSession                         *)

Diary(p) == p.data.projectDiary
IsSuffix(old, new) ==
    /\ Len(old) <= Len(new)
    /\ \A k \in 1..Len(old) : new[Len(new) - Len(old) + k] = old[k]

\* C15: in every step every project that is kept keeps its diary entries,
\* unchanged and in order, below any new ones; a logActivity call puts
\* exactly one new entry on top of the diary of the active project, and
\* changes nothing when no project is active
C15_DiaryAppendOnly ==
    [][ (Running /\ Running') =>
          /\ \A i \in 1..Len(session.projects), j \in 1..Len(session'.projects) :
                session.projects[i].id = session'.projects[j].id
                   => IsSuffix(Diary(session.projects[i]), Diary(session'.projects[j]))
          /\ lastOp'.op = "logActivity" =>
                IF activeProject(session) = {}
                THEN session' = session
                ELSE \E j \in 1..Len(session'.projects) :
                        /\ session'.projects[j].id = Shown(session).id
                        /\ Len(Diary(session'.projects[j]))
                              = Len(Diary(Shown(session))) + 1
                        /\ Diary(session'.projects[j])[1].id = lastOp'.id
      ]_vars

-----------------------------------------------------------------------------
(* Properties of the merge of a response into the map, stated for SpecMerge *)

\* the field a response writes and the ends of the link it was asked for
ResponseField(o) ==
    CASE o.op \in {"justificationResolved", "justificationRejected"} -> "justification"
      [] o.op \in {"implicationsResolved", "implicationsRejected"} -> "implications"
      [] o.op \in FormalizationResponses -> "formalization"
ResponseKeys(o) ==
    IF o.op \in FormalizationResponses THEN o.link ELSE {o.link}

\* C21: the response to a request made for a field of a link changes, in
\* the map as it is when the response arrives, nothing but that field's
\* state and payload on the link with the request's two ends: the nodes,
\* the constructs, the other links, the number and order of the links and
\* every other field of that link are as they were just before
C21_NoLostUpdate ==
    [][ ( /\ MapShown /\ MapShown'
          /\ lastOp'.op \in LinkFieldResponses \cup FormalizationResponses )
        => LET before == ShownLayout(session)
               after == ShownLayout(session')
               written == { StateField(ResponseField(lastOp')),
                            PayloadField(ResponseField(lastOp')) }
           IN  /\ after.nodes = before.nodes
               /\ Constructs(after) = Constructs(before)
               /\ Len(after.links) = Len(before.links)
               /\ \A i \in 1..Len(before.links) :
                     IF LinkKey(before.links[i]) \in ResponseKeys(lastOp')
                     THEN /\ (DOMAIN after.links[i]) \ written
                               = (DOMAIN before.links[i]) \ written
                          /\ \A f \in (DOMAIN before.links[i]) \ written :
                                 after.links[i][f] = before.links[i][f]
                     ELSE after.links[i] = before.links[i]
      ]_vars

\* a response has been merged into the link A -> B after the link's types
\* and path style were changed, with the other link retyped and the node C
\* still on the map
C21_Witness ==
    /\ MapShown
    /\ lastOp.op = "justificationResolved"
    /\ lastOp.link = [source |-> 1, target |-> 2]
    /\ \E l \in ShownLinks(session) :
          /\ LinkKey(l) = [source |-> 1, target |-> 2]
          /\ l.relationshipTypes = <<"Causal">>
          /\ l.pathStyle = "curved"
          /\ l.justificationState = "success"
          /\ l.justification = Justification
    /\ \E l \in ShownLinks(session) :
          /\ LinkKey(l) = [source |-> 2, target |-> 3]
          /\ l.relationshipTypes = <<"Unclassified">>

-----------------------------------------------------------------------------
(* Properties of a link drawn again, stated for SpecRecreate               *)

\* C22: the response to a justification request finds, on the link that
\* now has the request's two ends, a field that is not awaiting it (the
\* link asked about was deleted and a link between the same nodes drawn
\* again): the response is merged into that link all the same, its field
\* becoming success with the justification or error with the fallback
C22_StaleResultIntoRecreatedLink ==
    [][ ( /\ MapShown /\ MapShown'
          /\ lastOp'.op \in {"justificationResolved", "justificationRejected"}
          /\ FieldState(session, lastOp'.link, "justification") = "idle" )
        => \E l \in ShownLinks(session') :
              /\ LinkKey(l) = lastOp'.link
              /\ l.justificationState =
                    IF lastOp'.op = "justificationResolved" THEN "success" ELSE "error"
              /\ l.justification =
                    IF lastOp'.op = "justificationResolved" THEN Justification
                    ELSE ErrorJustification
      ]_vars

\* the link A -> B was deleted and drawn again as a causal link while its
\* justification was awaited, and the response has been merged into it
C22_Witness ==
    /\ MapShown
    /\ lastOp.op = "justificationResolved"
    /\ lastOp.was = "idle"
    /\ \E l \in ShownLinks(session) :
          /\ LinkKey(l) = lastOp.link
          /\ l.relationshipTypes = <<"Causal">>
          /\ l.justificationState = "success"
          /\ l.justification = Justification

-----------------------------------------------------------------------------
(* Properties of an awaited response, stated for SpecAwait                 *)

\* the map's one link is awaiting its justification
JustificationLoading ==
    /\ MapShown
    /\ \E l \in ShownLinks(session) :
          Has(l, "justificationState") /\ l.justificationState = "loading"

\* C23: when every request is answered in the end, a link whose
\* justification is at loading does not stay so for ever: the field reaches
\* success or error, or the link is deleted, whatever is done meanwhile to
\* the link's types and path style and to the nodes at its ends
C23_EnrichmentLiveness == JustificationLoading ~> ~JustificationLoading

-----------------------------------------------------------------------------
(* Properties of the in-flight guards, stated for SpecBusy                 *)

\* C24: a call of handleAnalyzeGenealogy or handleSynthesizeRegion returns
\* without sending its request only when a request of the same kind for
\* the same node, or for the same region, is awaited; a request awaited
\* for another node or region never makes the call return
C24_GuardPerEntity ==
    [][ /\ ( /\ lastOp'.op = "handleAnalyzeGenealogy"
             /\ Has(lastOp', "returned") )
            => \E r \in InFlight("genealogy") : r.nodeId = lastOp'.returned
        /\ ( /\ lastOp'.op = "handleSynthesizeRegion"
             /\ Has(lastOp', "returned") )
            => \E r \in InFlight("synthesis") :
                  { r.selectedNodes[k] : k \in 1..Len(r.selectedNodes) }
                     = lastOp'.returned
      ]_vars

-----------------------------------------------------------------------------
(* Properties of the order of responses, stated for SpecCommute            *)

\* the outcomes of a request and what the response does to the session
ResponseOutcomes(kind) ==
    IF kind = "implications" THEN ImplicationsOutcomes ELSE {"resolved", "rejected"}
ResponseTo(s, r, outcome, t) ==
    LET l == CHOOSE l \in r.link : TRUE
    IN  CASE r.kind = "justification" ->
                JustificationResponse(s, l, outcome = "resolved", t)
          [] r.kind = "implications" -> ImplicationsResponse(s, l, outcome, t)
          [] r.kind = "formalization" ->
                FormalizationResponse(s, r, outcome = "resolved", t)

\* what is awaited: the fields of the links requests are in flight for
\* (requests for one field of one link are answered alike)
Awaited ==
    { [kind |-> r.kind, link |-> r.link] :
        r \in { q \in pending : q.kind \in EnrichmentFields /\ q.link # {} } }

\* C25: for two awaited requests on different links, or on different
\* fields of one link, and whatever their outcomes, the map after both
\* responses (nodes, links with every field, constructs) is the same
\* whichever response comes first
C25_CompletionsCommute ==
    MapShown =>
        \A r1 \in Awaited, r2 \in Awaited :
            r1 # r2 =>
                \A o1 \in ResponseOutcomes(r1.kind), o2 \in ResponseOutcomes(r2.kind) :
                    ShownLayout(ResponseTo(ResponseTo(session, r1, o1, clock),
                                           r2, o2, clock + 1))
                      = ShownLayout(ResponseTo(ResponseTo(session, r2, o2, clock),
                                               r1, o1, clock + 1))

\* the justification of the link A -> B and the implications of the link
\* B -> C are awaited together, the first link's implications having been
\* answered already
C25_Witness ==
    /\ MapShown
    /\ \E r1 \in pending, r2 \in pending :
          /\ r1.kind = "justification" /\ r1.link = {[source |-> 1, target |-> 2]}
          /\ r2.kind = "implications" /\ r2.link = {[source |-> 2, target |-> 3]}
    /\ \E l \in ShownLinks(session) :
          /\ LinkKey(l) = [source |-> 1, target |-> 2]
          /\ l.implicationsState = "success"

(***************************************************************************)
(* Completions and the project they were asked for in                      *)
(***************************************************************************)
JustificationAnswers == {"justificationResolved", "justificationRejected"}
ProjectsBut(s, ids) ==
    SelectSeq(s.projects, LAMBDA p : p.id \notin ids)

\* C26: the response to a justification request changes no project other
\* than the one shown when the request was sent: every other project, its
\* map and its diary included, is after the response what it was before
C26_CompletionInRequestProject ==
    [][lastOp'.op \in JustificationAnswers =>
          \A r \in pending \ pending' :
              ProjectsBut(session', r.project) = ProjectsBut(session, r.project)]_vars

(***************************************************************************)
(* The change of a node's concept                                          *)
(***************************************************************************)
Renamed(id, oldId, newId) == IF id = oldId THEN newId ELSE id

\* C27: a change of concept keeps the links and moves their ends: after it
\* no link leaves or reaches the old id, there are as many links as before,
\* and each link is the link that was at its place with the old id replaced
\* by the new one at the end where it stood and every other field as it was
\* (a link that did not touch the old id is unchanged)
C27_ReplacePreservesEdges ==
    [][lastOp'.op = "handleConceptChangeSelect" =>
          LET before == ShownLayout(session).links
              after == ShownLayout(session').links
              oldId == lastOp'.id
              newId == lastOp'.newId
          IN  /\ Len(after) = Len(before)
              /\ \A k \in 1..Len(after) :
                    /\ after[k].source # oldId
                    /\ after[k].target # oldId
                    /\ after[k] =
                          With(With(before[k], "source",
                                    Renamed(before[k].source, oldId, newId)),
                               "target", Renamed(before[k].target, oldId, newId))]_vars

\* a node with a link arriving and a link leaving has just been changed to
\* another concept
C27_Witness ==
    /\ MapShown
    /\ lastOp.op = "handleConceptChangeSelect"
    /\ \E l1 \in ShownLinks(session), l2 \in ShownLinks(session) :
          l1.target = lastOp.newId /\ l2.source = lastOp.newId

ProvenanceFlags ==
    {"isAiGenerated", "isHistorical", "isDialectic", "isCitation", "isCounterExample"}
ShownNodes(s) ==
    { ShownLayout(s).nodes[i] : i \in 1..Len(ShownLayout(s).nodes) }

\* C28: the node a change of concept has just rewritten carries no marker
\* of where it came from: each of isAiGenerated, isHistorical, isDialectic,
\* isCitation and isCounterExample is false or absent, and synthesisInfo is
\* absent
C28_ReplaceClearsProvenance ==
    [][lastOp'.op = "handleConceptChangeSelect" =>
          \A n \in ShownNodes(session') :
              n.id = lastOp'.newId =>
                  /\ \A f \in ProvenanceFlags : Has(n, f) => n[f] = FALSE
                  /\ ~Has(n, "synthesisInfo")]_vars

(***************************************************************************)
(* Requests that make nodes, when they fail                                *)
(***************************************************************************)
GenealogyFailures == {"genealogyRejected", "genealogyMalformed"}
SynthesisFailures == {"synthesisRejected", "synthesisIncoherent"}
MapLayouts(s) == [i \in 1..Len(s.projects) |-> s.projects[i].data.mapLayout]

\* C29: a genealogy or a synthesis that fails (the request is rejected, the
\* response cannot be parsed or lacks a field, the region is judged
\* incoherent) leaves the nodes, the links and the logical constructs of
\* every map as they were, and no request of its kind is in flight after
\* it, which is what the next request of that kind tests
C29_FailureInsertsNothing ==
    [][/\ (lastOp'.op \in GenealogyFailures =>
              /\ MapLayouts(session') = MapLayouts(session)
              /\ { r \in pending' : r.kind = "genealogy" } = {})
        /\ (lastOp'.op \in SynthesisFailures =>
              /\ MapLayouts(session') = MapLayouts(session)
              /\ { r \in pending' : r.kind = "synthesis" } = {})]_vars

\* a genealogy is asked for and sent after an earlier one was answered by
\* a response that could not be used: the diary holds its entry and the
\* map no historical node
C29_Witness ==
    /\ MapShown
    /\ lastOp.op = "handleAnalyzeGenealogy"
    /\ ~Has(lastOp, "returned")
    /\ InFlight("genealogy") # {}
    /\ \E k \in 1..Len(Shown(session).data.projectDiary) :
          Shown(session).data.projectDiary[k].type = "ANALYZE_GENEALOGY"
    /\ \A n \in ShownNodes(session) : ~Has(n, "isHistorical")

(***************************************************************************)
(* The diary and the operations on the graph                               *)
(***************************************************************************)
GraphOperations ==
    { "createLink", "deleteLink", "deleteNode", "updateLinkRelationshipTypes",
      "updateLinkPathStyle", "updateNodeShape", "handleConceptChangeSelect",
      "handlePinCitation", "handleCreateLogicalConstruct", "handleSaveNote" }

\* C30: each of the operations that change the graph (a link drawn, deleted,
\* retyped or restyled, a node deleted, reshaped or changed to another
\* concept, a citation pinned, a construct made, a note saved), when it
\* changes the map, adds one entry to the diary of the project shown
C30_GraphOperationsLogged ==
    [][(lastOp'.op \in GraphOperations /\ ShownLayout(session') # ShownLayout(session))
          => Len(Diary(Shown(session'))) = Len(Diary(Shown(session))) + 1]_vars

(***************************************************************************)
(* Arguments and the constructs made of them                               *)
(***************************************************************************)
AllConstructs(s) ==
    UNION { { Constructs(s.projects[i].data.mapLayout)[k] :
                k \in 1..Len(Constructs(s.projects[i].data.mapLayout)) } :
            i \in 1..Len(s.projects) }
ConstructWellFormed(c) ==
    /\ Len(c.premiseNodeIds) >= 1
    /\ ~Includes(c.premiseNodeIds, c.conclusionNodeId)

\* C31: every logical construct of every map has at least one premise and
\* a conclusion that is not one of its premises; the workbench opens only
\* on such an argument; and a request on a selection that has not exactly
\* one conclusion, or no premise, changes nothing: the session, what is
\* stored, the workbench, the requests in flight and the last result stay
\* as they were
C31_ConstructsWellFormed ==
    [][/\ \A c \in AllConstructs(session') : ConstructWellFormed(c)
       /\ \A w \in logicalWorkbench' :
              Has(w, "combinedArgument") =>
                  /\ Len(w.combinedArgument.premises) >= 1
                  /\ ~Includes(w.combinedArgument.premises, w.combinedArgument.conclusion)
       /\ (lastOp'.op = "handleOpenCombinedArgumentWorkbench" =>
              /\ ~ArgumentRead(session, lastOp'.rejected)
              /\ UNCHANGED <<session, storage, clock, logicalWorkbench, pending,
                             formalizationResult, linkingNode, relationshipMenu,
                             linkContextMenu>>)
       /\ (lastOp'.op = "handleFormalizeArgument" /\ ~Has(lastOp', "link") =>
              \E region \in SUBSET NodeIds(session) :
                  /\ ArgumentRead(session, region)
                  /\ logicalWorkbench' =
                        { [combinedArgument |-> CombinedArgument(session, region)] })
      ]_vars

\* a construct has been made from the workbench, and a later request on a
\* selection without a conclusion has been turned down
C31_Witness ==
    /\ MapShown
    /\ lastOp.op = "handleOpenCombinedArgumentWorkbench"
    /\ Cardinality(lastOp.rejected) >= 2
    /\ \E c \in AllConstructs(session) : c.id # StoredConstruct.id

(***************************************************************************)
(* What a load returns                                                     *)
(***************************************************************************)

\* C32: when load returns the stored versioned session, every link of
\* every project has a relationshipTypes that is not empty
C32_LoadedLinksTyped ==
    (Loaded /\ lastOp.path = "versioned") =>
        \A ij \in AllLinks(session) :
            /\ Has(LinkAt(session, ij), "relationshipTypes")
            /\ Len(LinkAt(session, ij).relationshipTypes) > 0

\* the session with the transient flags of every feed subscription cleared
FeedsReset(s) ==
    With(s, "projects",
         [i \in 1..Len(s.projects) |->
             IF Has(s.projects[i], "data") /\ Has(s.projects[i].data, "trackedFeeds")
             THEN With(s.projects[i], "data",
                       With(s.projects[i].data, "trackedFeeds",
                            [k \in 1..Len(s.projects[i].data.trackedFeeds) |->
                                ResetFeed(s.projects[i].data.trackedFeeds[k])]))
             ELSE s.projects[i]])

\* C33: while the program runs, what is stored is the serialization of the
\* session, and a load of it returns that session, equal in every part but
\* the isLoading and error of the feed subscriptions, which come back false
\* and null
C33_PersistenceRoundTrip ==
    Running =>
        /\ storage.multiProjectSession = Json(session)
        /\ LET r == loadInitialSession(storage, clock)
           IN  /\ ~r.threw
               /\ r.path = "versioned"
               /\ r.val = FeedsReset(session)

StateFields == {"justificationState", "implicationsState", "formalizationState"}

\* C34: right after a load no link of any project has its
\* justificationState, implicationsState or formalizationState at loading
C34_NoLoadingAfterLoad ==
    Loaded =>
        \A ij \in AllLinks(session) :
            \A f \in StateFields :
                Has(LinkAt(session, ij), f) => LinkAt(session, ij)[f] # "loading"

\* a parsed blob whose project list can be read: projects is there and
\* each project has its data and its map
WellFormedProjects(v) ==
    /\ ~IsNullJson(v)
    /\ Has(v, "projects")
    /\ \A i \in 1..Len(v.projects) : ~ProjectThrows(v.projects[i])
ProjectNames(s) == [i \in 1..Len(s.projects) |-> <<s.projects[i].id, s.projects[i].name>>]

\* C35: a load of a stored session that parses and has a well-formed
\* project list returns the projects of that session, whether its version
\* is absent, below, equal to or above the current one
C35_StoredProjectsReturned ==
    (lastOp.op = "load" /\ LoadedBlob.kind = "json"
                       /\ WellFormedProjects(LoadedBlob.val)) =>
        /\ phase = "running"
        /\ lastOp.path = "versioned"
        /\ ProjectNames(session) = ProjectNames(LoadedBlob.val)

(***************************************************************************)
(* The project shown and the project updated                               *)
(***************************************************************************)

\* C36: whenever a project is shown as active, be it the one activeProjectId
\* names or the first project taken in its place, an
\* updateActiveProjectData(fn) applies fn to the data of that project
C36_UpdateReachesShownProject ==
    [][(lastOp'.op = "updateActiveProjectData" /\ activeProject(session) # {}) =>
          \E i \in 1..Len(session.projects) :
              /\ session.projects[i] = Shown(session)
              /\ session'.projects[i].data =
                    ApplyUpdater(lastOp'.updater, Shown(session).data)]_vars
-----------------------------------------------------------------------------
(* The formalization a construct stores, stated for SpecConstructs         *)

\* the construct a handleCreateLogicalConstruct step has appended
LastConstruct(s) ==
    Constructs(ShownLayout(s))[Len(Constructs(ShownLayout(s)))]
OwnFormalization(c) ==
    FormalizationResultFor([ premises |-> c.premiseNodeIds,
                             conclusion |-> c.conclusionNodeId ])

\* C37: the construct committed by handleCreateLogicalConstruct stores the
\* formalization returned by the request made for the construct's own
\* premises and conclusion, whatever other formalization requests were
\* issued or answered in between
C37_ConstructStoresOwnFormalization ==
    [][lastOp'.op = "handleCreateLogicalConstruct" =>
          LET c == LastConstruct(session')
              own == OwnFormalization(c)
          IN  /\ c.propositions = own.propositions
              /\ c.critique = own.critique
              /\ c.formalRepresentation = own.choices[1].formalRepresentation
              /\ c.suggestedSystem = own.choices[1].suggestedSystem
              /\ c.rationale = own.choices[1].rationale]_vars

-----------------------------------------------------------------------------
(* The guard of handleExploreImplications, stated for SpecEnrich           *)

\* C38: when the link's implicationsState in the current graph is loading,
\* handleExploreImplications sends no request, whatever copy of the link
\* its caller passes
C38_GuardReadsCurrentGraph ==
    [][(/\ lastOp'.op = "handleExploreImplications"
        /\ FieldState(session, lastOp'.link, "implications") = "loading")
          => pending' = pending]_vars

====
